---------------------------- MODULE Spec2Model ----------------------------
(***************************************************************************)
(* A model of the vtx front end: the scanner / recursive-descent parser    *)
(* of src/src/parse/parse.rs and the tree-rewriting engine of              *)
(* src/src/visit.rs.                                                       *)
(*                                                                         *)
(* Strings are sequences of characters; a character is a TLA+ string.      *)
(* Two characters stand for multi-byte UTF-8 scalars: "U+00E9" (a two-byte *)
(* letter) and "U+00A0" (a two-byte white-space character), because the    *)
(* scanner mixes byte counts and character counts.                         *)
(***************************************************************************)
EXTENDS Integers, Sequences, FiniteSets, TLC

VARIABLES
    \* ---- Parser (parse.rs, struct Parser) ----
    src,            \* the source string handed to parse()
    cursor,         \* [remaining, position]: Parser.remaining / Parser.iter / Parser.position
    tokens,         \* TokenStorage.tokens
    errors,         \* TokenStorage.errors
    dynamic_state,  \* DynamicParserState.env_parse_attrs
    stack,          \* activation records of parse_children (innermost last)
    stop,           \* parse_children: the stop token of the current iteration
    hdr,            \* parse_env_from_name: header being parsed / just parsed
    pc,             \* control location of the parser
    root,           \* the node returned by parse_document
    next_id,        \* NODE_ID_COUNTER
    \* ---- Engine (visit.rs, fn transform) ----
    transformers,   \* the number of visitors in the list handed to transform()
    max_passes,     \* transform: max_passes
    action,         \* transform: the Action of the last descent, [kind, node]
    iterations,     \* transform: iterations
    vidx,           \* transform: index of the visitor the for loop is at
    calls,          \* activation records of transform_node_single_pass (innermost last)
    log,            \* the calls of enter / leave made on the visitor in the current descent
    changes,        \* how often a visitor answered other than Keep so far
    result,         \* what transform returned
    tpc,            \* control location of transform
    document,       \* transform: the node it was called with
    visitors,       \* what each visitor of the list is: [once, inner]
    visited,        \* TransformerOnce.visited of each visitor
    delegated,      \* the calls a TransformerOnce handed on to the visitor it wraps
    scopes,         \* Variables.scopes
    \* ---- Other callers of Node::generate_id (document.rs) ----
    issued,         \* the ids NODE_ID_COUNTER gave to threads, [thread, id], in the order of the fetch_adds
    threads         \* each thread that calls Node::generate_id: [pc, id, got]

\* the variables of the parser (NODE_ID_COUNTER is shared with the engine)
pvars == <<src, cursor, tokens, errors, dynamic_state, stack, stop, hdr, pc, root>>

\* the variables of the engine
evars == <<transformers, max_passes, action, iterations, vidx, calls, log, changes, result, tpc,
           document, visitors, visited, delegated, scopes, issued, threads>>

\* what no step of the engine changes
given == <<document, visitors, issued, threads>>

-----------------------------------------------------------------------------
(* Bounds of the model                                                     *)

\* a source is a concatenation of at most MaxPieces pieces
MaxPieces == 3
\* the diagnostics the attribute loop may pile up once the input is exhausted
MaxErrors == 4
\* an attribute list holds at most MaxAttrs attributes
MaxAttrs == 2
\* transform is handed at most MaxVisitors visitors and a max_passes up to MaxPasses
MaxVisitors == 2
MaxPasses == 1
\* the visitors answer other than Keep at most MaxChanges times in one run
MaxChanges == 2

-----------------------------------------------------------------------------
(* Characters                                                              *)

NBSP == "U+00A0"
EACUTE == "U+00E9"
BSL == "\\"
QUOTE == "\""
NL == "\n"

\* char::len_utf8
LenUtf8(c) == IF c \in {NBSP, EACUTE} THEN 2 ELSE 1

\* char::is_whitespace
IsWhitespace(c) == c \in {" ", NL, NBSP}

\* (b >= b'a' && b <= b'z') || (b >= b'A' && b <= b'Z') on the byte that starts c
IsAsciiLetter(c) == c \in {"a", "b", "x", "E", "q", "C", "o", "d", "e", "R", "m", "p", "n", "t",
                            "c", "r", "w"}

RECURSIVE StrLen(_)
\* str::len: the length in bytes
StrLen(s) == IF s = <<>> THEN 0 ELSE LenUtf8(Head(s)) + StrLen(Tail(s))

RECURSIVE StartsWith(_, _)
\* str::starts_with
StartsWith(s, p) ==
    IF p = <<>> THEN TRUE
    ELSE IF s = <<>> THEN FALSE
    ELSE Head(s) = Head(p) /\ StartsWith(Tail(s), Tail(p))

RECURSIVE SlicePanics(_, _)
\* &s[..n] with n in bytes panics when n is out of range or is not a character boundary
SlicePanics(s, n) ==
    IF n = 0 THEN FALSE
    ELSE IF s = <<>> THEN TRUE
    ELSE IF LenUtf8(Head(s)) > n THEN TRUE
    ELSE SlicePanics(Tail(s), n - LenUtf8(Head(s)))

RECURSIVE SliceValue(_, _)
\* &s[..n] with n in bytes: the characters of the prefix (when it does not panic)
SliceValue(s, n) ==
    IF n <= 0 \/ s = <<>> THEN <<>>
    ELSE <<Head(s)>> \o SliceValue(Tail(s), n - LenUtf8(Head(s)))

RECURSIVE CountWhile(_, _)
\* chars().take_while(p).count() for the two predicates the scanner uses
CountWhile(s, p) ==
    IF s = <<>> THEN 0
    ELSE IF (p = "ws" /\ IsWhitespace(Head(s))) \/ (p = "hash" /\ Head(s) = "#")
         THEN 1 + CountWhile(Tail(s), p)
         ELSE 0

-----------------------------------------------------------------------------
(* Positions and tokens                                                    *)

\* ParserPosition::zero
PositionZero == [line |-> 0, col |-> 0, byte_idx |-> 0]

\* ParserPosition::advance
Advance(p, c) ==
    [line     |-> IF c = NL THEN p.line + 1 ELSE p.line,
     col      |-> IF c = NL THEN 0 ELSE p.col + 1,
     byte_idx |-> p.byte_idx + LenUtf8(c)]

\* TokenKind: every kind but EnvClose carries an empty closer
TK(k) == [k |-> k, closer |-> <<>>]
TKEnvClose(closer) == [k |-> "EnvClose", closer |-> closer]

Token(kind, value, position) == [kind |-> kind, value |-> value, position |-> position]

\* Parser::new
NewCursor(s) == [remaining |-> s, position |-> PositionZero]

\* Parser::next_char (Parser.iter always denotes the same suffix as Parser.remaining)
NextChar(cur) ==
    IF cur.remaining = <<>> THEN cur
    ELSE [remaining |-> Tail(cur.remaining),
          position  |-> Advance(cur.position, Head(cur.remaining))]

RECURSIVE Skip(_, _)
\* Parser::skip: n calls of next_char
Skip(cur, n) == IF n = 0 THEN cur ELSE Skip(NextChar(cur), n - 1)

\* Parser::next_unescaped_char
NextUnescapedChar(cur) ==
    IF cur.remaining = <<>> THEN cur
    ELSE IF Head(cur.remaining) = BSL THEN NextChar(NextChar(cur))
    ELSE NextChar(cur)

\* capture_heading_open: the number of bytes matched, 0 for no match
CaptureHeadingOpen(s) ==
    LET hashes == CountWhile(s, "hash")
    IN  IF hashes >= 1 /\ Len(s) > hashes /\ s[hashes + 1] = " " THEN hashes + 1 ELSE 0

NoMatch == [ok |-> FALSE, panic |-> FALSE, value |-> <<>>]
Matched(v) == [ok |-> TRUE, panic |-> FALSE, value |-> v]
Panicked == [ok |-> FALSE, panic |-> TRUE, value |-> <<>>]

\* bytes[0] == b: indexing an empty slice panics
FirstByteIs(s, c) == IF s = <<>> THEN Panicked ELSE IF Head(s) = c THEN Matched(<<c>>) ELSE NoMatch

\* str::starts_with(lit).then(|| lit)
Literal(s, lit) == IF StartsWith(s, lit) THEN Matched(lit) ELSE NoMatch

\* TokenKind::Whitespace: n white-space characters, then the slice &remaining[..n]
MatchWhitespace(s, n) ==
    IF n = 0 THEN NoMatch ELSE IF SlicePanics(s, n) THEN Panicked ELSE Matched(SliceValue(s, n))

\* TokenKind::HeadingOpen => capture_heading_open(self.remaining)
MatchHeadingOpen(s, n) == IF n = 0 THEN NoMatch ELSE Matched(SubSeq(s, 1, n))

\* The match expression of Parser::try_parse_token: the matched substring
MatchToken(s, kind) ==
    CASE kind.k = "EnvOpen" ->
            IF s = <<>> THEN Panicked
            ELSE IF Head(s) = "<" /\ StrLen(s) > 1 /\ IsAsciiLetter(s[2]) THEN Matched(<<"<">>)
            ELSE NoMatch
      [] kind.k = "FragmentOpen" -> Literal(s, <<"<", ">">>)
      [] kind.k = "FragmentClose" -> Literal(s, <<"<", "/", ">">>)
      [] kind.k = "Whitespace" -> MatchWhitespace(s, CountWhile(s, "ws"))
      [] kind.k = "EndOfModule" -> IF StrLen(s) = 1 THEN Matched(<<>>) ELSE NoMatch
      [] kind.k = "DollarBrace" -> Literal(s, <<"$", "{">>)
      [] kind.k = "RightBrace" -> FirstByteIs(s, "}")
      [] kind.k = "Dollar" -> FirstByteIs(s, "$")
      [] kind.k = "Equals" -> FirstByteIs(s, "=")
      [] kind.k = "Quote" -> FirstByteIs(s, QUOTE)
      [] kind.k = "EndOfLine" -> FirstByteIs(s, NL)
      [] kind.k = "CommentOpen" -> Literal(s, <<"/", "*", "*">>)
      [] kind.k = "CommentClose" -> Literal(s, <<"*", "/">>)
      [] kind.k = "EnvSelfClose" -> Literal(s, <<"/", ">">>)
      [] kind.k = "RightAngle" -> Literal(s, <<">">>)
      [] kind.k = "EnvClose" -> Literal(s, kind.closer)
      [] kind.k = "HeadingOpen" -> MatchHeadingOpen(s, CaptureHeadingOpen(s))
      [] OTHER -> Panicked     \* unreachable!("Cannot use non-matchable token for matching.")

\* self.skip(s.len()): the number of characters skipped after a match
SkipCount(value) == StrLen(value)

\* the second match of Parser::try_parse_token: skip what matched
Consume(cur, m) ==
    [ok |-> m.ok, panic |-> m.panic, value |-> m.value,
     cur |-> IF m.ok THEN Skip(cur, SkipCount(m.value)) ELSE cur]

\* Parser::try_parse_token
TryParseToken(cur, kind) == Consume(cur, MatchToken(cur.remaining, kind))

\* a for loop that prefers the kind listed last among those that match
FirstKindListedLast(s, kinds, i) ==
    IF \A j \in i..Len(kinds) : MatchToken(s, kinds[j]) = NoMatch THEN 0
    ELSE CHOOSE j \in i..Len(kinds) :
             /\ MatchToken(s, kinds[j]) # NoMatch
             /\ \A k \in (j + 1)..Len(kinds) : MatchToken(s, kinds[k]) = NoMatch

RECURSIVE FirstKind(_, _, _)
\* the for loop of Parser::seek_to at one position: the index of the first kind
\* of the list that matches (or panics), 0 when none does
FirstKind(s, kinds, i) ==
    IF i > Len(kinds) THEN 0
    ELSE IF MatchToken(s, kinds[i]) # NoMatch THEN i
    ELSE FirstKind(s, kinds, i + 1)

\* the for loop of Parser::seek_to at one position: the token matched there
TryKindAt(cur, kinds, i) ==
    IF i = 0 THEN [ok |-> FALSE, panic |-> FALSE, value |-> <<>>, cur |-> cur, kind |-> TK("-")]
    ELSE [kind |-> kinds[i]] @@ TryParseToken(cur, kinds[i])

TryKinds(cur, kinds) == TryKindAt(cur, kinds, FirstKind(cur.remaining, kinds, 1))

\* a scanner that steps over one character at a time, backslash or not
SeekStepPlain(cur) == NextChar(cur)

\* Moves from a position where nothing matched to the next position seek_to tries
SeekStep(cur) == NextUnescapedChar(cur)

RECURSIVE SeekTo(_, _)
\* the body of the while loop of Parser::seek_to, m the outcome of its for loop
SeekLoop(cur, kinds, m) ==
    IF m.panic
    THEN [found |-> FALSE, panic |-> TRUE, token |-> Token(TK("-"), <<>>, cur.position), cur |-> cur]
    ELSE IF m.ok
    THEN [found |-> TRUE, panic |-> FALSE, token |-> Token(m.kind, m.value, cur.position), cur |-> m.cur]
    ELSE SeekTo(SeekStep(cur), kinds)

\* Parser::seek_to
SeekTo(cur, kinds) ==
    IF StrLen(cur.remaining) > 0
    THEN SeekLoop(cur, kinds, TryKinds(cur, kinds))
    ELSE [found |-> \E i \in 1..Len(kinds) : kinds[i] = TK("EndOfModule"),
          panic |-> FALSE,
          token |-> Token(TK("EndOfModule"), <<>>, cur.position),
          cur   |-> cur]

\* ParseError pushed by Parser::push_error
ErrorToken(what, position) == [kind |-> [k |-> "Error", closer |-> <<>>, error |-> what],
                               value |-> <<>>, position |-> position]

\* Parser::seek_to_and_capture after its call of seek_to: prev is the cursor
\* before the seek, e the outcome of seek_to, captured_length the bytes between.
\* captured / error are sequences of zero or one token: the captured token (None
\* for an empty span) and the diagnostic pushed.
Capture(prev, captured_kind, e, captured_length) ==
    [panic    |-> e.panic \/ SlicePanics(prev.remaining, captured_length),
     captured |-> IF captured_length > 0
                  THEN <<Token(TK(captured_kind), SliceValue(prev.remaining, captured_length),
                               prev.position)>>
                  ELSE <<>>,
     end      |-> IF e.found THEN e.token
                  ELSE Token(TK("EndOfModule"), <<>>, e.cur.position),
     error    |-> IF e.found THEN <<>>
                  ELSE <<ErrorToken("UnexpectedEof", prev.position)>>,
     cur      |-> e.cur]

\* a length measured up to the cursor behind the end token
CapturedLengthToCursor(prev, e) == e.cur.position.byte_idx - prev.position.byte_idx

\* end_position - prev_position.byte_idx
CapturedLength(prev, e) ==
    (IF e.found THEN e.token.position.byte_idx ELSE e.cur.position.byte_idx)
        - prev.position.byte_idx

CaptureOf(prev, captured_kind, e) == Capture(prev, captured_kind, e, CapturedLength(prev, e))

\* Parser::seek_to_and_capture
SeekToAndCapture(cur, captured_kind, end_kinds) ==
    CaptureOf(cur, captured_kind, SeekTo(cur, end_kinds))

\* Parser::get_captured_value
GetCapturedValue(captured) == IF captured = <<>> THEN <<>> ELSE captured[1].value


-----------------------------------------------------------------------------
(* Document model (document.rs)                                            *)

\* EnvNodeHeaderKind
HK(k, eq, level, name) == [k |-> k, eq |-> eq, level |-> level, name |-> name]
HKEq(e) == HK("Eq", e, 0, <<>>)
HKCode == HK("Code", "-", 0, <<>>)
HKModule == HK("Module", "-", 0, <<>>)
HKFragment == HK("Fragment", "-", 0, <<>>)
HKHeading(level) == HK("Heading", "-", level, <<>>)
HKOther(name) == HK("Other", "-", 0, name)

\* EnvNodeHeaderKind::new
HeaderKindNew(name) ==
    IF name = <<"E", "q">> THEN HKEq("Block")
    ELSE IF name = <<"C", "o", "d", "e">> THEN HKCode
    ELSE HKOther(name)

\* the tag that declares a component: <Component Name content="..."> ... </Component>
ComponentTag == <<"C", "o", "m", "p", "o", "n", "e", "n", "t">>

\* EnvNodeHeaderKind::ComponentDefinition, the variant parse.rs:748 matches on;
\* its canonical name is the tag it is written with
HKComponentDefinition == HK("ComponentDefinition", "-", 0, ComponentTag)

\* the tag name resolved to a header kind: the known names map to their
\* variant, everything else is Other(name)
ResolveHeaderKind(name) ==
    IF name = ComponentTag THEN HKComponentDefinition ELSE HeaderKindNew(name)

\* EnvNodeHeaderKind::get_name
GetName(hk) ==
    CASE hk.k = "Eq" -> <<"E", "q">>
      [] hk.k = "Code" -> <<"C", "o", "d", "e">>
      [] hk.k = "Module" -> <<>>
      [] hk.k = "Heading" -> <<"h", IF hk.level = 0 THEN "1" ELSE IF hk.level = 1 THEN "2" ELSE "3">>
      [] hk.k = "Fragment" -> <<>>
      [] OTHER -> hk.name

\* EnvNodeHeaderKind::get_closing_string
GetClosingString(hk) ==
    IF hk.k = "Module" THEN <<>> ELSE <<"<", "/">> \o GetName(hk) \o <<">">>

\* TokenKind::new_env_close
NewEnvClose(hk) == TKEnvClose(GetClosingString(hk))

\* EnvNodeAttrs: a map from attribute name to Option<Node>, the option being a
\* sequence of zero or one node
EmptyAttrs == [k \in {} |-> <<>>]
AttrsInsert(attrs, key, value) ==
    [k \in DOMAIN attrs \cup {key} |-> IF k = key THEN value ELSE attrs[k]]

\* the for loop of parse_env_header_from_name: header.attrs.insert(key, value) for every pair
AttrsMerge(into, from) ==
    [k \in DOMAIN into \cup DOMAIN from |-> IF k \in DOMAIN from THEN from[k] ELSE into[k]]

\* EnvNodeHeader::default_attrs
DefaultAttrs(name) ==
    IF name = <<"E", "q">> THEN AttrsInsert(EmptyAttrs, <<"b", "l", "o", "c", "k">>, <<>>)
    ELSE EmptyAttrs

\* EnvNodeHeader::new_default
NewDefaultHeader(name) == [kind |-> ResolveHeaderKind(name), attrs |-> DefaultAttrs(name)]

NoHeader == [kind |-> HK("-", "-", 0, <<>>), attrs |-> EmptyAttrs]

\* NodePosition
Source(position) == [source |-> TRUE, position |-> position]
Inserted == [source |-> FALSE, position |-> PositionZero]

\* Node with NodeKind::Leaf
LeafNode(id, leaf, value, position) ==
    [id |-> id, kind |-> "Leaf", leaf |-> leaf, value |-> value, header |-> NoHeader,
     envkind |-> "-", children |-> <<>>, position |-> position]

\* Node with NodeKind::Env
EnvNode(id, header, envkind, children, position) ==
    [id |-> id, kind |-> "Env", leaf |-> "-", value |-> <<>>, header |-> header,
     envkind |-> envkind, children |-> children, position |-> position]

\* Node::new_text
NewText(id, token) == LeafNode(id, "Text", token.value, Source(token.position))

NoNode == LeafNode(0 - 1, "-", <<>>, Inserted)

IsOpen(n) == n.kind = "Env" /\ n.envkind = "Open"

-----------------------------------------------------------------------------
(* Dynamic parse modes (dynamic_parse.rs)                                  *)

\* DynamicParserState::new
NewDynamicState ==
    [hk \in {HKEq("Block"), HKEq("Inline"), HKCode} |-> "Raw"]

\* DynamicParserState::get_env_parse_attrs(..).content(), default ENV_PARSE_ATTRS_DEFAULT
ContentMode(ds, hk) == IF hk \in DOMAIN ds THEN ds[hk] ELSE "Vtx"

ContentKey == <<"c", "o", "n", "t", "e", "n", "t">>

\* the match on mode.as_str() in ContentParseMode::from_attrs
ContentParseModeOf(mode) ==
    IF mode = <<"v", "t", "x">> THEN [ok |-> TRUE, content |-> "Vtx"]
    ELSE IF mode = <<"r", "a", "w">> THEN [ok |-> TRUE, content |-> "Vtx"]
    ELSE IF mode = <<"r", "a", "w", "-", "s", "t", "r", "i", "c", "t">>
         THEN [ok |-> TRUE, content |-> "Vtx"]
    ELSE [ok |-> FALSE, content |-> "-"]       \* Err(InvalidContentParseMode)

\* a from_attrs for which a component without a content is raw
ContentParseModeRawUnlessGiven(attrs) ==
    IF ContentKey \notin DOMAIN attrs THEN [ok |-> TRUE, content |-> "Raw"]
    ELSE IF attrs[ContentKey] = <<>> THEN [ok |-> TRUE, content |-> "Raw"]
    ELSE ContentParseModeOf(attrs[ContentKey][1].value)

\* ContentParseMode::from_attrs
ContentParseModeFromAttrs(attrs) ==
    IF ContentKey \notin DOMAIN attrs THEN [ok |-> TRUE, content |-> "Vtx"]
    ELSE IF attrs[ContentKey] = <<>> THEN [ok |-> TRUE, content |-> "Vtx"]
    ELSE IF attrs[ContentKey][1].kind = "Leaf" /\ attrs[ContentKey][1].leaf = "Text"
         THEN ContentParseModeOf(attrs[ContentKey][1].value)
    ELSE [ok |-> FALSE, content |-> "-"]

\* EnvParseAttrs::from_attrs
EnvParseAttrsFromAttrs(attrs) == ContentParseModeFromAttrs(attrs)

\* DynamicParserState::set_env_parse_attrs: the registry maps the header kind
\* to the parse attributes from now on
SetEnvParseAttrs(ds, hk, content) ==
    [k \in DOMAIN ds \cup {hk} |-> IF k = hk THEN content ELSE ds[k]]

\* component_name_definition_attrs: the declared name of a component, the
\* attribute written without a value (none or one, as a sequence)
ComponentNameDefinitionAttrs(attrs) ==
    IF \E k \in DOMAIN attrs : attrs[k] = <<>>
    THEN <<CHOOSE k \in DOMAIN attrs : attrs[k] = <<>> >>
    ELSE <<>>


-----------------------------------------------------------------------------
(* Parser: the recursive descent of parse.rs as a state machine.           *)
(* pc = "children": at the head of the loop of parse_children              *)
(*      "dispatch": at the match on stop_kind in parse_children            *)
(*      "attrs":    at the head of the loop of parse_env_header_attrs      *)
(*      "env_body": in parse_env_from_name, the header has been parsed     *)
(*      "done":     parse returned;  "panic": the thread panicked          *)

\* One activation of parse_children together with what its caller builds from
\* the children: wrap is "Module", "Heading", "Fragment" or "Env".
Frame(closing, wrap, header, position) ==
    [closing |-> closing, children |-> <<>>, wrap |-> wrap, header |-> header,
     position |-> position]

NoToken == Token(TK("-"), <<>>, PositionZero)
NoHdr == [header |-> NoHeader, stop_kind |-> TK("-"), position |-> PositionZero,
          attrs |-> EmptyAttrs, attrs_position |-> PositionZero]

Top == stack[Len(stack)]

\* children.push_back(node) in the innermost activation
PushChild(stk, node) == [stk EXCEPT ![Len(stk)].children = Append(@, node)]

\* the end kinds parse_children seeks
ChildKinds(closing_tag) ==
    <<closing_tag, TK("FragmentOpen"), TK("EnvOpen"), TK("DollarBrace"), TK("Dollar"),
      TK("CommentOpen"), TK("HeadingOpen")>>

\* the end kinds of parse_env_header_from_name and of parse_env_header_attrs
NameEndKinds == <<TK("Whitespace"), TK("EnvSelfClose"), TK("RightAngle")>>
AttrEndKinds == <<TK("Equals"), TK("Whitespace"), TK("EnvSelfClose"), TK("RightAngle")>>

Panic ==
    /\ pc' = "panic"
    /\ UNCHANGED <<evars, src, cursor, tokens, errors, dynamic_state, stack, stop, hdr, root, next_id>>

\* parse_children, first half of an iteration: seek to the next stop token and
\* push the text before it as a Text child
SeekChild ==
    /\ pc = "children"
    /\ LET r == SeekToAndCapture(cursor, "Text", ChildKinds(Top.closing))
       IN  IF r.panic THEN Panic
           ELSE /\ cursor' = r.cur
                /\ tokens' = tokens \o r.captured \o <<r.end>>
                /\ errors' = errors \o r.error
                /\ stop' = r.end
                /\ stack' = IF r.captured = <<>> THEN stack
                            ELSE PushChild(stack, NewText(next_id, r.captured[1]))
                /\ next_id' = IF r.captured = <<>> THEN next_id ELSE next_id + 1
                /\ pc' = "dispatch"
                /\ UNCHANGED <<evars, src, dynamic_state, hdr, root>>

\* a caller that wraps an environment without the children collected for it
WrapChildrenEmpty(frame, id) ==
    EnvNode(id, frame.header, "Open", <<>>, Source(frame.position))

\* What the caller of parse_children builds from the returned children
WrapChildren(frame, id) ==
    CASE frame.wrap = "Heading" ->
            EnvNode(id, [kind |-> frame.header.kind, attrs |-> EmptyAttrs], "Open",
                    frame.children, Source(frame.position))
      [] frame.wrap = "Fragment" ->
            EnvNode(id, [kind |-> HKFragment, attrs |-> EmptyAttrs], "Open",
                    frame.children, Source(frame.position))
      [] frame.wrap = "Env" ->
            EnvNode(id, frame.header, "Open", frame.children, Source(frame.position))
      [] OTHER ->
            EnvNode(id, [kind |-> HKModule, attrs |-> EmptyAttrs], "Open",
                    frame.children, Source(PositionZero))

\* parse_children returns its children: the caller wraps them into a node and
\* pushes it into its own children, or parse_document returns the Module
ReturnChildren ==
    /\ IF Len(stack) = 1
       THEN /\ root' = WrapChildren(Top, next_id)
            /\ stack' = <<>>
            /\ pc' = "done"
       ELSE /\ stack' = PushChild(SubSeq(stack, 1, Len(stack) - 1), WrapChildren(Top, next_id))
            /\ pc' = "children"
            /\ root' = root
    /\ next_id' = next_id + 1
    /\ UNCHANGED <<evars, src, cursor, tokens, errors, dynamic_state, stop, hdr>>

\* which arm of the match on stop_kind in parse_children is taken
DispatchArm(stop_kind, closing_tag) ==
    IF stop_kind = closing_tag THEN "break"
    ELSE IF stop_kind.k \in {"HeadingOpen", "FragmentOpen", "EnvOpen", "DollarBrace",
                             "Dollar", "CommentOpen", "EndOfModule"}
         THEN stop_kind.k
         ELSE "unreachable"

\* _ if stop_kind == closing_tag => break
DispatchClose ==
    /\ pc = "dispatch"
    /\ DispatchArm(stop.kind, Top.closing) = "break"
    /\ ReturnChildren

\* TokenKind::EndOfModule => return children
DispatchEndOfModule ==
    /\ pc = "dispatch"
    /\ DispatchArm(stop.kind, Top.closing) = "EndOfModule"
    /\ ReturnChildren

\* stop_token.value.len() handed to NodeKind::heading
HeadingLevel(value) == StrLen(value)

\* TokenKind::HeadingOpen => heading(.., self.parse_children(EndOfLine))
DispatchHeading ==
    /\ pc = "dispatch"
    /\ DispatchArm(stop.kind, Top.closing) = "HeadingOpen"
    /\ stack' = Append(stack, Frame(TK("EndOfLine"), "Heading",
                                    [kind |-> HKHeading(HeadingLevel(stop.value)), attrs |-> EmptyAttrs],
                                    stop.position))
    /\ pc' = "children"
    /\ UNCHANGED <<evars, src, cursor, tokens, errors, dynamic_state, stop, hdr, root, next_id>>

\* TokenKind::FragmentOpen => new_fragment(self.parse_children(FragmentClose))
DispatchFragment ==
    /\ pc = "dispatch"
    /\ DispatchArm(stop.kind, Top.closing) = "FragmentOpen"
    /\ stack' = Append(stack, Frame(TK("FragmentClose"), "Fragment",
                                    [kind |-> HKFragment, attrs |-> EmptyAttrs], stop.position))
    /\ pc' = "children"
    /\ UNCHANGED <<evars, src, cursor, tokens, errors, dynamic_state, stop, hdr, root, next_id>>

\* TokenKind::DollarBrace => VariableExpression(self.parse_variable_expression())
DispatchVariable ==
    /\ pc = "dispatch"
    /\ DispatchArm(stop.kind, Top.closing) = "DollarBrace"
    /\ LET r == SeekToAndCapture(cursor, "VariableName", <<TK("RightBrace")>>)
       IN  IF r.panic THEN Panic
           ELSE /\ cursor' = r.cur
                /\ tokens' = tokens \o r.captured \o <<r.end>>
                /\ errors' = errors \o r.error
                /\ stack' = PushChild(stack, LeafNode(next_id, "VariableExpression",
                                          GetCapturedValue(r.captured), Source(stop.position)))
                /\ next_id' = next_id + 1
                /\ pc' = "children"
                /\ UNCHANGED <<evars, src, dynamic_state, stop, hdr, root>>

\* TokenKind::CommentOpen => Comment(self.parse_comment())
DispatchComment ==
    /\ pc = "dispatch"
    /\ DispatchArm(stop.kind, Top.closing) = "CommentOpen"
    /\ LET r == SeekToAndCapture(cursor, "CommentText", <<TK("CommentClose")>>)
       IN  IF r.panic THEN Panic
           ELSE /\ cursor' = r.cur
                /\ tokens' = tokens \o r.captured \o <<r.end>>
                /\ errors' = errors \o r.error
                /\ stack' = PushChild(stack, LeafNode(next_id, "Comment",
                                          GetCapturedValue(r.captured), Source(stop.position)))
                /\ next_id' = next_id + 1
                /\ pc' = "children"
                /\ UNCHANGED <<evars, src, dynamic_state, stop, hdr, root>>

\* The children of a raw body: the captured Text, if any (ids: the text first)
RawChildren(captured, id) ==
    IF captured = <<>> THEN <<>> ELSE <<NewText(id, captured[1])>>

\* TokenKind::Dollar => an Eq(Inline) environment around the text up to the next `$`
DispatchDollar ==
    /\ pc = "dispatch"
    /\ DispatchArm(stop.kind, Top.closing) = "Dollar"
    /\ LET r == SeekToAndCapture(cursor, "Math", <<TK("Dollar")>>)
           kids == RawChildren(r.captured, next_id)
       IN  IF r.panic THEN Panic
           ELSE /\ cursor' = r.cur
                /\ tokens' = tokens \o r.captured \o <<r.end>>
                /\ errors' = errors \o r.error
                /\ stack' = PushChild(stack,
                                EnvNode(next_id + Len(kids),
                                        [kind |-> HKEq("Inline"), attrs |-> EmptyAttrs],
                                        "Open", kids, Source(stop.position)))
                /\ next_id' = next_id + Len(kids) + 1
                /\ pc' = "children"
                /\ UNCHANGED <<evars, src, dynamic_state, stop, hdr, root>>

\* _ => unreachable!() of parse_children
DispatchUnreachable ==
    /\ pc = "dispatch"
    /\ DispatchArm(stop.kind, Top.closing) = "unreachable"
    /\ Panic

\* an add_component_definition that registers a component whatever its content
AddComponentDefinitionAnyway(ds, name, attrs) ==
    SetEnvParseAttrs(ds, HKOther(name),
                     IF EnvParseAttrsFromAttrs(attrs).ok THEN EnvParseAttrsFromAttrs(attrs).content
                     ELSE "Vtx")

\* Parser::add_component_definition: the registry afterwards
AddComponentDefinition(ds, name, attrs) ==
    IF EnvParseAttrsFromAttrs(attrs).ok
    THEN SetEnvParseAttrs(ds, HKOther(name), EnvParseAttrsFromAttrs(attrs).content)
    ELSE ds

\* Parser::add_component_definition: the diagnostic it pushes
AddComponentDefinitionError(attrs, header_position) ==
    IF EnvParseAttrsFromAttrs(attrs).ok THEN <<>>
    ELSE <<ErrorToken("InvalidAttrValue", header_position)>>

\* the match on header.kind at the end of parse_env_header_from_name: the
\* registry afterwards
DefineComponent(ds, header) ==
    IF header.kind = HKComponentDefinition /\ ComponentNameDefinitionAttrs(header.attrs) # <<>>
    THEN AddComponentDefinition(ds, ComponentNameDefinitionAttrs(header.attrs)[1], header.attrs)
    ELSE ds

\* the match on header.kind at the end of parse_env_header_from_name: the
\* diagnostic pushed
DefineComponentError(header, attrs_position) ==
    IF header.kind # HKComponentDefinition THEN <<>>
    ELSE IF ComponentNameDefinitionAttrs(header.attrs) # <<>>
         THEN AddComponentDefinitionError(header.attrs, attrs_position)
    ELSE <<[ErrorToken("MissingAttrName", attrs_position) EXCEPT !.value = <<"T", "O", "D", "O">>]>>

\* TokenKind::EnvOpen => parse_env_from_name, up to the end of the tag name in
\* parse_env_header_from_name (to its end when no attributes follow the name)
DispatchEnvOpen ==
    /\ pc = "dispatch"
    /\ DispatchArm(stop.kind, Top.closing) = "EnvOpen"
    /\ LET r == SeekToAndCapture(cursor, "EnvName", NameEndKinds)
       IN  IF r.panic \/ r.captured = <<>>      \* name.unwrap()
           THEN Panic
           ELSE /\ cursor' = r.cur
                /\ tokens' = tokens \o r.captured \o <<r.end>>
                /\ hdr' = [header |-> NewDefaultHeader(r.captured[1].value),
                           stop_kind |-> r.end.kind,
                           position |-> stop.position,
                           attrs |-> EmptyAttrs,
                           attrs_position |-> r.cur.position]
                /\ IF r.end.kind = TK("Whitespace")
                   THEN /\ pc' = "attrs"
                        /\ errors' = errors \o r.error
                        /\ UNCHANGED dynamic_state
                   ELSE /\ pc' = "env_body"
                        /\ errors' = errors \o r.error
                                        \o DefineComponentError(hdr'.header, r.cur.position)
                        /\ dynamic_state' = DefineComponent(dynamic_state, hdr'.header)
                /\ UNCHANGED <<evars, src, stack, stop, root, next_id>>


\* the iteration of parse_env_header_attrs at the cursor: its first seek
AttrSeek == SeekToAndCapture(cursor, "AttrName", AttrEndKinds)

\* which arm of the match on end_token.kind in parse_env_header_attrs is taken
AttrArm(end_kind) ==
    IF end_kind.k = "Equals" THEN "value"
    ELSE IF end_kind.k \in {"EnvSelfClose", "RightAngle"} THEN "return"
    ELSE IF end_kind.k \in {"Whitespace", "EndOfModule"} THEN "continue"
    ELSE "unreachable"

ErrorKey == <<"<", "e", "r", "r", "o", "r", ">">>

\* if let Some(key) = key { attrs.insert(key, None) }
InsertBareName(attrs, captured) ==
    IF captured = <<>> THEN attrs ELSE AttrsInsert(attrs, captured[1].value, <<>>)

\* a seek of the attribute loop panicked (a slice off a character boundary)
AttrPanic ==
    /\ pc = "attrs"
    /\ AttrSeek.panic
    /\ Panic

\* a key that is left empty when the name is missing
AttrKeyEmpty(captured) == IF captured = <<>> THEN <<>> ELSE captured[1].value

\* let key = match key { Some(key) => .., None => String::from("<error>") }
AttrKey(captured) == IF captured = <<>> THEN ErrorKey ELSE captured[1].value

\* TokenKind::Equals => name="value"
AttrEquals ==
    /\ pc = "attrs"
    /\ ~AttrSeek.panic
    /\ AttrArm(AttrSeek.end.kind) = "value"
    /\ LET r == AttrSeek
           end_position == r.end.position
           key == AttrKey(r.captured)
           missing == IF r.captured = <<>>
                      THEN <<ErrorToken("MissingAttrName", end_position)>> ELSE <<>>
           \* skip whitespace until the opening quote
           r2 == SeekToAndCapture(r.cur, "Whitespace", <<TK("Quote")>>)
           r3 == SeekToAndCapture(r2.cur, "StringLiteral", <<TK("Quote")>>)
           fallback == Token(TK("Text"), <<>>, end_position)
           value == IF r3.captured = <<>> THEN fallback ELSE r3.captured[1]
           \* skip any whitespace after the value
           w == TryParseToken(r3.cur, TK("Whitespace"))
       IN  IF r2.panic \/ r3.panic \/ w.panic THEN Panic
           ELSE /\ cursor' = w.cur
                /\ tokens' = tokens \o r.captured \o <<r.end>> \o r2.captured \o <<r2.end>>
                                    \o r3.captured \o <<r3.end>>
                /\ errors' = errors \o missing \o r2.error \o r3.error
                /\ hdr' = [hdr EXCEPT !.attrs = AttrsInsert(@, key, <<NewText(next_id, value)>>)]
                /\ next_id' = next_id + 1
                /\ pc' = "attrs"
                /\ UNCHANGED <<evars, src, dynamic_state, stack, stop, root>>

\* TokenKind::EnvSelfClose | TokenKind::RightAngle => return (attrs, kind); back in
\* parse_env_header_from_name the attributes are copied into the header and a
\* component that is declared is registered
AttrReturn ==
    /\ pc = "attrs"
    /\ ~AttrSeek.panic
    /\ AttrArm(AttrSeek.end.kind) = "return"
    /\ LET r == AttrSeek
       IN  /\ cursor' = r.cur
           /\ tokens' = tokens \o r.captured \o <<r.end>>
           /\ hdr' = [hdr EXCEPT
                        !.header.attrs = AttrsMerge(@, InsertBareName(hdr.attrs, r.captured)),
                        !.attrs = EmptyAttrs,
                        !.stop_kind = r.end.kind]
           /\ errors' = errors \o r.error
                           \o DefineComponentError(hdr'.header, hdr.attrs_position)
           /\ dynamic_state' = DefineComponent(dynamic_state, hdr'.header)
           /\ pc' = "env_body"
           /\ UNCHANGED <<evars, src, stack, stop, root, next_id>>

\* TokenKind::Whitespace | TokenKind::EndOfModule => the loop goes on.  At end of
\* input every further iteration only pushes one more diagnostic; MaxErrors
\* bounds that growth.
AttrContinue ==
    /\ pc = "attrs"
    /\ ~AttrSeek.panic
    /\ AttrArm(AttrSeek.end.kind) = "continue"
    /\ cursor.remaining # <<>> \/ Len(errors) < MaxErrors
    /\ LET r == AttrSeek
       IN  /\ cursor' = r.cur
           /\ tokens' = tokens \o r.captured \o <<r.end>>
           /\ errors' = errors \o r.error
           /\ hdr' = [hdr EXCEPT !.attrs = InsertBareName(@, r.captured)]
           /\ pc' = "attrs"
           /\ UNCHANGED <<evars, src, dynamic_state, stack, stop, root, next_id>>

\* which arm of parse_env_from_name is taken after the header
BodyArm(stop_kind, mode) ==
    IF stop_kind.k = "EnvSelfClose" THEN "self_closing"
    ELSE IF stop_kind.k = "RightAngle" /\ mode = "Vtx" THEN "children"
    ELSE IF stop_kind.k = "RightAngle" /\ mode = "Raw" THEN "raw"
    ELSE "panic"       \* todo!("Not implemented yet") and unreachable!()

HdrArm == BodyArm(hdr.stop_kind, ContentMode(dynamic_state, hdr.header.kind))

\* TokenKind::EnvSelfClose => EnvNode::new_self_closing(header)
EnvSelfClosing ==
    /\ pc = "env_body"
    /\ HdrArm = "self_closing"
    /\ stack' = PushChild(stack, EnvNode(next_id, hdr.header, "SelfClosing", <<>>,
                                         Source(hdr.position)))
    /\ next_id' = next_id + 1
    /\ pc' = "children"
    /\ UNCHANGED <<evars, src, cursor, tokens, errors, dynamic_state, stop, hdr, root>>

\* ContentParseMode::Vtx => self.parse_children(new_env_close(&header.kind))
EnvOpenVtx ==
    /\ pc = "env_body"
    /\ HdrArm = "children"
    /\ stack' = Append(stack, Frame(NewEnvClose(hdr.header.kind), "Env", hdr.header, hdr.position))
    /\ pc' = "children"
    /\ UNCHANGED <<evars, src, cursor, tokens, errors, dynamic_state, stop, hdr, root, next_id>>

\* the end kinds of the raw body seek
RawEndKinds(hk) == <<NewEnvClose(hk)>>

\* ContentParseMode::Raw => one Text up to the closing tag, no recursion
EnvOpenRaw ==
    /\ pc = "env_body"
    /\ HdrArm = "raw"
    /\ LET r == SeekToAndCapture(cursor, "Text", RawEndKinds(hdr.header.kind))
           kids == RawChildren(r.captured, next_id)
       IN  IF r.panic THEN Panic
           ELSE /\ cursor' = r.cur
                /\ tokens' = tokens \o r.captured \o <<r.end>>
                /\ errors' = errors \o r.error
                /\ stack' = PushChild(stack, EnvNode(next_id + Len(kids), hdr.header, "Open",
                                                     kids, Source(hdr.position)))
                /\ next_id' = next_id + Len(kids) + 1
                /\ pc' = "children"
                /\ UNCHANGED <<evars, src, dynamic_state, stop, hdr, root>>

\* _ => unreachable!() of parse_env_from_name: the header ended at end of input
EnvUnreachable ==
    /\ pc = "env_body"
    /\ HdrArm = "panic"
    /\ Panic

NextParse ==
    \/ SeekChild
    \/ DispatchClose
    \/ DispatchEndOfModule
    \/ DispatchHeading
    \/ DispatchFragment
    \/ DispatchVariable
    \/ DispatchComment
    \/ DispatchDollar
    \/ DispatchEnvOpen
    \/ AttrPanic
    \/ AttrEquals
    \/ AttrReturn
    \/ AttrContinue
    \/ EnvSelfClosing
    \/ EnvOpenVtx
    \/ EnvOpenRaw
    \/ EnvUnreachable

-----------------------------------------------------------------------------
(* Sources: every concatenation of at most MaxPieces pieces taken from one  *)
(* of the groups of pieces                                                 *)

\* <name> and </name>
OpenTag(name) == <<"<">> \o name \o <<">">>
CloseTag(name) == <<"<", "/">> \o name \o <<">">>

\* the component the sources declare and use
RawComponent == <<"R">>

\* <Component R content="mode">
Declaration(mode) ==
    OpenTag(ComponentTag \o <<" ">> \o RawComponent \o <<" ">> \o ContentKey
            \o <<"=", QUOTE>> \o mode \o <<QUOTE>>)

\* <Component R>
PlainDeclaration == OpenTag(ComponentTag \o <<" ">> \o RawComponent)

\* the body of a usage: a tag that never closes and a `$`
UsageBody == OpenTag(<<"a">>) \o <<"$">>

\* <R><a>$</R>
Usage == OpenTag(RawComponent) \o UsageBody \o CloseTag(RawComponent)

PieceGroups ==
    { \* text, escapes, math, environments and raw environments
      { <<"x">>, <<BSL>>, <<"$">>, <<"<", "a", ">">>, <<"<", "/", "a", ">">>,
        <<"<", "E", "q", ">">>, <<"<", "/", "E", "q", ">">> },
      \* tag headers: a name with attributes to follow, an attribute, the ends
      \* of a tag, a multi-byte blank, a name at the end of input
      { <<"x">>, <<"<", "a", " ">>, <<"b", "=", QUOTE, "x", QUOTE>>, <<"/", ">">>, <<">">>,
        <<NBSP>>, <<"<", "b">> },
      \* headings, comments, variables, fragments
      { <<"x">>, <<BSL>>, <<"$">>, <<"#", " ">>, <<NL>>, <<"<", "a", ">">> },
      { <<"x">>, <<BSL>>, <<"/", "*", "*">>, <<"*", "/">>, <<"<", "a", ">">> },
      { <<"x">>, <<BSL>>, <<"$">>, <<"$", "{">>, <<"}">> },
      { <<"x">>, <<BSL>>, <<"<", ">">>, <<"<", "/", ">">>, <<"<", "a", ">">>,
        <<"<", "/", "a", ">">> },
      \* an environment whose name holds a multi-byte character
      { <<"x">>, <<BSL>>, <<"$">>, <<"<", "a", EACUTE, ">", "<", "/", "a", EACUTE, ">">>,
        <<"<", "E", "q", ">">>, <<"<", "/", "E", "q", ">">> },
      \* components: declarations (raw content, no name, a content that is no
      \* mode) and a usage
      { Declaration(<<"r", "a", "w">>), OpenTag(ComponentTag), Declaration(<<"x">>),
        CloseTag(ComponentTag), Usage },
      \* components declared without a content and with content="vtx", a usage
      { PlainDeclaration, Declaration(<<"v", "t", "x">>), Usage } }

RECURSIVE SourcesOver(_, _)
SourcesOver(pieces, n) ==
    IF n = 0 THEN { <<>> }
    ELSE LET shorter == SourcesOver(pieces, n - 1)
         IN  shorter \cup { s \o p : s \in shorter, p \in pieces }

Sources == UNION { SourcesOver(g, MaxPieces) : g \in PieceGroups }

\* transform has not been called
EngineIdle ==
    /\ transformers = 0
    /\ max_passes = 0
    /\ action = [kind |-> "Keep", node |-> NoNode]
    /\ iterations = 0
    /\ vidx = 1
    /\ calls = <<>>
    /\ log = <<>>
    /\ changes = 0
    /\ result = [kind |-> "-", node |-> NoNode]
    /\ tpc = "idle"
    /\ document = NoNode
    /\ visitors = <<>>
    /\ visited = <<>>
    /\ delegated = <<>>
    /\ scopes = <<>>
    /\ issued = <<>>
    /\ threads = <<>>

InitParse ==
    /\ src \in Sources
    /\ cursor = NewCursor(src)
    /\ tokens = <<>>
    /\ errors = <<>>
    /\ dynamic_state = NewDynamicState
    /\ stack = <<Frame(TK("EndOfModule"), "Module", [kind |-> HKModule, attrs |-> EmptyAttrs],
                       PositionZero)>>
    /\ stop = NoToken
    /\ hdr = NoHdr
    /\ pc = "children"
    /\ root = NoNode
    /\ next_id = 0
    /\ EngineIdle

vars == <<src, cursor, tokens, errors, dynamic_state, stack, stop, hdr, pc, root, next_id, evars>>

Spec == InitParse /\ [][NextParse]_vars

-----------------------------------------------------------------------------
(* Properties of the parser                                                *)

\* parse returned a root whose header kind is Module
ReturnedModule == pc = "done" /\ root.kind = "Env" /\ root.header.kind = HKModule

\* what the control flow of the parser reads: everything but the token and
\* diagnostic logs
ControlState == <<cursor, stack, stop, hdr, pc, root, next_id>>

\* C1: for every source string, parse terminates and returns a root node whose
\* header kind is Module.  The parser is deterministic in its control state, so
\* termination requires that no step leaves the control state as it was (such a
\* step repeats forever); and what parse returns is a Module.
C1_ParseTerminatesWithModule ==
    [][ControlState' # ControlState /\ (pc' = "done" => ReturnedModule')]_vars

\* C2: parse never aborts: no panic site of the parser is reached, whatever the
\* source string.
C2_ParseNeverPanics == pc # "panic"

\* the number of characters of s that start before byte b
CharsBefore(s, b) == Len(SliceValue(s, b))

RECURSIVE BackslashRun(_, _)
\* the length of the run of backslashes that ends with character i of s
BackslashRun(s, i) == IF i = 0 THEN 0 ELSE IF s[i] # BSL THEN 0 ELSE 1 + BackslashRun(s, i - 1)

\* the character of s that starts at byte b is immediately preceded by an
\* unescaped backslash
EscapedAt(s, b) == BackslashRun(s, CharsBefore(s, b)) % 2 = 1

\* the kinds of the tokens the scanner matches at a character of the source
StructuralKinds ==
    {"EnvOpen", "FragmentOpen", "FragmentClose", "DollarBrace", "RightBrace", "Dollar",
     "Equals", "Quote", "EndOfLine", "CommentOpen", "CommentClose", "EnvSelfClose",
     "RightAngle", "EnvClose", "HeadingOpen"}

\* C3: escaping: a character immediately preceded by an unescaped backslash is
\* never the start of a matched structural token (so an escaped `<Eq>` opens no
\* Eq environment, an escaped `$` no inline math, an escaped closing tag closes
\* nothing).
C3_EscapedNeverStructural ==
    \A i \in 1..Len(tokens) :
        tokens[i].kind.k \in StructuralKinds => ~EscapedAt(src, tokens[i].position.byte_idx)

\* the positions (in characters, from 1) of s where closer starts at a
\* character that no unescaped backslash precedes
UnescapedOccurrences(s, closer) ==
    { i \in 1..(Len(s) - Len(closer) + 1) :
        /\ SubSeq(s, i, i + Len(closer) - 1) = closer
        /\ BackslashRun(s, i - 1) % 2 = 0 }

\* the span of s before the first unescaped occurrence of closer: all of s when
\* there is none
SpanBefore(s, closer) ==
    LET occ == UnescapedOccurrences(s, closer)
    IN  IF occ = {} THEN s
        ELSE SubSeq(s, 1, (CHOOSE i \in occ : \A j \in occ : i <= j) - 1)

\* what follows the first unescaped occurrence of closer in s
RestAfter(s, closer) ==
    LET occ == UnescapedOccurrences(s, closer)
    IN  IF occ = {} THEN <<>>
        ELSE SubSeq(s, (CHOOSE i \in occ : \A j \in occ : i <= j) + Len(closer), Len(s))

\* the node pushed last into the innermost activation
LastPushed(stk) == stk[Len(stk)].children[Len(stk[Len(stk)].children)]

\* n is an Open environment holding nothing, or one Text leaf of the given value
HoldsOnlyText(n, span) ==
    /\ n.kind = "Env" /\ n.envkind = "Open"
    /\ Len(n.children) = (IF span = <<>> THEN 0 ELSE 1)
    /\ span # <<>> => /\ n.children[1].kind = "Leaf"
                      /\ n.children[1].leaf = "Text"
                      /\ n.children[1].value = span

\* a step that builds the body of a raw environment: `<Eq ..>` / `<Code ..>`
\* after its header, or inline math after its opening `$`
RawBodyStep ==
    /\ pc' = "children"
    /\ \/ pc = "env_body" /\ hdr.stop_kind = TK("RightAngle") /\ hdr.header.kind.k \in {"Eq", "Code"}
       \/ pc = "dispatch" /\ stop.kind = TK("Dollar") /\ Top.closing # TK("Dollar")

RawCloser == IF pc = "dispatch" THEN <<"$">> ELSE GetClosingString(hdr.header.kind)

RECURSIVE RawNodesOpaque(_)
\* every Eq / Code Open environment among the nodes holds at most one child, a Text
RawNodesOpaque(nodes) ==
    \A i \in 1..Len(nodes) :
        /\ (IsOpen(nodes[i]) /\ nodes[i].header.kind.k \in {"Eq", "Code"}) =>
              /\ Len(nodes[i].children) <= 1
              /\ \A j \in 1..Len(nodes[i].children) :
                    nodes[i].children[j].kind = "Leaf" /\ nodes[i].children[j].leaf = "Text"
        /\ RawNodesOpaque(nodes[i].children)

\* C4: raw bodies are opaque: an Open environment of kind Eq (Inline or Block)
\* or Code gets at most one child, a Text leaf byte-identical to the source span
\* between the end of the opening tag and the first unescaped closing token; no
\* other node is created from that span, and parsing resumes behind the closer.
C4_RawBodyOpaque ==
    [][/\ RawBodyStep =>
            /\ LastPushed(stack').header.kind.k \in {"Eq", "Code"}
            /\ HoldsOnlyText(LastPushed(stack'), SpanBefore(cursor.remaining, RawCloser))
            /\ cursor'.remaining = RestAfter(cursor.remaining, RawCloser)
            /\ next_id' = next_id + Len(LastPushed(stack').children) + 1
       /\ \A i \in 1..Len(stack') : RawNodesOpaque(stack'[i].children)
       /\ RawNodesOpaque(<<root'>>)]_vars

\* an Eq environment was built whose body holds an escaped closing tag
C4_Witness ==
    /\ pc = "children"
    /\ Top.children # <<>>
    /\ LastPushed(stack).header.kind = HKEq("Block")
    /\ HoldsOnlyText(LastPushed(stack), <<BSL, "<", "/", "E", "q", ">">>)

\* a diagnostic of kind "unexpected end of input" is on record
HasEofError(errs) == \E i \in 1..Len(errs) : errs[i].kind.error = "UnexpectedEof"

IsPrefix(a, b) == Len(a) <= Len(b) /\ SubSeq(b, 1, Len(a)) = a

\* n is the Open environment of the given header holding exactly these children
IsOpenEnvOf(n, header, children) ==
    n.kind = "Env" /\ n.envkind = "Open" /\ n.header = header /\ n.children = children

\* a step in which an environment body ends at end of input instead of at its
\* closing tag: parse_children returns on EndOfModule, or the raw body ran to
\* the end of the input
EofInBodyStep ==
    \/ pc = "dispatch" /\ stop.kind = TK("EndOfModule") /\ Top.wrap \in {"Env", "Fragment"}
    \/ /\ pc = "env_body" /\ pc' = "children"
       /\ hdr.stop_kind = TK("RightAngle") /\ hdr.header.kind.k \in {"Eq", "Code"}
       /\ UnescapedOccurrences(cursor.remaining, GetClosingString(hdr.header.kind)) = {}

\* the children the body had collected when the input ended
CollectedAtEof ==
    IF pc = "dispatch" THEN Top.children
    ELSE IF cursor.remaining = <<>> THEN <<>>
    ELSE <<NewText(next_id, Token(TK("Text"), cursor.remaining, cursor.position))>>

\* no step drops or reorders a node already in the tree under construction
TreeKeptStep ==
    \/ /\ Len(stack') = Len(stack)
       /\ \A i \in 1..Len(stack) : IsPrefix(stack[i].children, stack'[i].children)
    \/ /\ Len(stack') = Len(stack) + 1
       /\ \A i \in 1..Len(stack) : stack'[i].children = stack[i].children
    \/ /\ Len(stack) > 1 /\ Len(stack') = Len(stack) - 1
       /\ \A i \in 1..(Len(stack) - 2) : stack'[i].children = stack[i].children
       /\ IsPrefix(stack[Len(stack) - 1].children, stack'[Len(stack) - 1].children)
       /\ LastPushed(stack').children = Top.children
    \/ /\ Len(stack) = 1 /\ stack' = <<>>
       /\ pc' = "done"
       /\ root'.children = stack[1].children

\* C5: an Open environment whose closing tag never occurs before end of input
\* leaves at least one "unexpected end of input" diagnostic on record, and the
\* tree keeps that environment node with exactly the children collected before
\* end of input, in order; the root returned is still the Module node.
C5_UnterminatedEnvKept ==
    [][/\ EofInBodyStep =>
            /\ HasEofError(errors')
            /\ IsOpenEnvOf(LastPushed(stack'),
                           IF pc = "dispatch" THEN Top.header ELSE hdr.header,
                           CollectedAtEof)
       /\ TreeKeptStep
       /\ pc' = "done" => ReturnedModule']_vars

\* parse returned for `<a>x`: one diagnostic, and the Module holds the
\* environment a with its Text child
C5_Witness ==
    /\ ReturnedModule
    /\ src = <<"<", "a", ">", "x">>
    /\ HasEofError(errors)
    /\ Len(root.children) = 1
    /\ root.children[1].header.kind = HKOther(<<"a">>)
    /\ IsOpen(root.children[1])
    /\ Len(root.children[1].children) = 1
    /\ root.children[1].children[1].value = <<"x">>

-----------------------------------------------------------------------------
(* parse_env_header_attrs on its own, as its unit test calls it: the parser *)
(* is created on an attribute list and the attribute loop runs till it      *)
(* returns.                                                                 *)

AttrItems ==
    { <<"a">>, <<"b">>, <<"a", "=", QUOTE, "x", QUOTE>>, <<"b", "=", QUOTE, QUOTE>> }

\* white space between attributes and before the terminator
Blanks == { <<" ">>, <<NL>>, <<" ", NL>>, <<NBSP>>, <<NBSP, " ">> }

Terminators == { <<"/", ">">>, <<">">> }

RECURSIVE AttrListsOver(_)
\* n attributes, white space between them
AttrListsOver(n) ==
    IF n = 0 THEN { <<>> }
    ELSE IF n = 1 THEN AttrItems
    ELSE { l \o b \o a : l \in AttrListsOver(n - 1), b \in Blanks, a \in AttrItems }

\* attribute lists ended by `/>` or `>`, with or without white space before it
AttrSources ==
    UNION { { l \o b \o t : l \in AttrListsOver(n),
                              b \in (IF n = 0 THEN { <<>> } ELSE Blanks \cup { <<>> }),
                              t \in Terminators }
            : n \in 0..MaxAttrs }

InitAttrs ==
    /\ src \in AttrSources
    /\ cursor = NewCursor(src)
    /\ tokens = <<>>
    /\ errors = <<>>
    /\ dynamic_state = NewDynamicState
    /\ stack = <<>>
    /\ stop = NoToken
    /\ hdr = NoHdr
    /\ pc = "attrs"
    /\ root = NoNode
    /\ next_id = 0
    /\ EngineIdle

NextAttrs ==
    \/ AttrPanic
    \/ AttrEquals
    \/ AttrReturn
    \/ AttrContinue

SpecAttrs == InitAttrs /\ [][NextAttrs]_vars

\* attribute lists in which a value may have no name in front of its `=`
NamelessItems == { <<"=", QUOTE, "x", QUOTE>>, <<"a">>, <<"b", "=", QUOTE, QUOTE>> }

NamelessBlanks == { <<" ">>, <<NBSP>> }

RECURSIVE NamelessListsOver(_)
NamelessListsOver(n) ==
    IF n = 0 THEN { <<>> }
    ELSE IF n = 1 THEN NamelessItems
    ELSE { l \o b \o a : l \in NamelessListsOver(n - 1), b \in NamelessBlanks,
                         a \in NamelessItems }

NamelessSources ==
    UNION { { l \o b \o t : l \in NamelessListsOver(n),
                              b \in (IF n = 0 THEN { <<>> } ELSE NamelessBlanks \cup { <<>> }),
                              t \in Terminators }
            : n \in 0..MaxAttrs }

\* Parser::new(src).parse_env_header_attrs() on such a list
InitNameless ==
    /\ src \in NamelessSources
    /\ cursor = NewCursor(src)
    /\ tokens = <<>>
    /\ errors = <<>>
    /\ dynamic_state = NewDynamicState
    /\ stack = <<>>
    /\ stop = NoToken
    /\ hdr = NoHdr
    /\ pc = "attrs"
    /\ root = NoNode
    /\ next_id = 0
    /\ EngineIdle

SpecNameless == InitNameless /\ [][NextAttrs]_vars

\* attribute lists whose values are quoted, quoted behind a blank, quoted behind
\* other characters, without a closing quote and without any quote
ValueItems ==
    { <<"a", "=", QUOTE, "x", QUOTE>>, <<"a", "=", " ", QUOTE, "x", QUOTE>>,
      <<"a", "=", "x", QUOTE, "y", QUOTE>>, <<"a", "=", QUOTE, "x">>, <<"a", "=", "x">> }

RECURSIVE ValueListsOver(_)
ValueListsOver(n) ==
    IF n = 0 THEN { <<>> }
    ELSE IF n = 1 THEN ValueItems
    ELSE { l \o b \o a : l \in ValueListsOver(n - 1), b \in NamelessBlanks, a \in ValueItems }

ValueSources ==
    UNION { { l \o b \o t : l \in ValueListsOver(n),
                              b \in (IF n = 0 THEN { <<>> } ELSE NamelessBlanks \cup { <<>> }),
                              t \in Terminators }
            : n \in 0..MaxAttrs }

\* Parser::new(src).parse_env_header_attrs() on such a list
InitValues ==
    /\ src \in ValueSources
    /\ cursor = NewCursor(src)
    /\ tokens = <<>>
    /\ errors = <<>>
    /\ dynamic_state = NewDynamicState
    /\ stack = <<>>
    /\ stop = NoToken
    /\ hdr = NoHdr
    /\ pc = "attrs"
    /\ root = NoNode
    /\ next_id = 0
    /\ EngineIdle

SpecValues == InitValues /\ [][NextAttrs]_vars

RECURSIVE Words(_, _)
\* the maximal runs of characters other than white space in s; w is the run
\* being collected
Words(s, w) ==
    IF s = <<>> THEN (IF w = <<>> THEN <<>> ELSE <<w>>)
    ELSE IF IsWhitespace(Head(s))
         THEN (IF w = <<>> THEN <<>> ELSE <<w>>) \o Words(Tail(s), <<>>)
         ELSE Words(Tail(s), Append(w, Head(s)))

EndsWith(s, t) == Len(s) >= Len(t) /\ SubSeq(s, Len(s) - Len(t) + 1, Len(s)) = t

\* the terminator that ends the attribute list s
TerminatorOf(s) == IF EndsWith(s, <<"/", ">">>) THEN <<"/", ">">> ELSE <<">">>

\* the attributes written in s: its words, the terminator taken off the last
WrittenAttrs(s) ==
    SelectSeq(Words(SubSeq(s, 1, Len(s) - Len(TerminatorOf(s))), <<>>), LAMBDA w : w # <<>>)

\* the position of `=` in the word w, 0 for a bare name
EqualsAt(w) ==
    IF \E i \in 1..Len(w) : w[i] = "="
    THEN CHOOSE i \in 1..Len(w) : w[i] = "=" /\ \A j \in 1..(i - 1) : w[j] # "="
    ELSE 0

NameOf(w) == IF EqualsAt(w) = 0 THEN w ELSE SubSeq(w, 1, EqualsAt(w) - 1)

\* the text between the quotes of name="value"
ValueOf(w) == SubSeq(w, EqualsAt(w) + 2, Len(w) - 1)

\* the entry of the map for the attribute written as w
EntryMatches(entry, w) ==
    IF EqualsAt(w) = 0 THEN entry = <<>>
    ELSE /\ Len(entry) = 1
         /\ entry[1].kind = "Leaf" /\ entry[1].leaf = "Text"
         /\ entry[1].value = ValueOf(w)

\* C6: for an attribute list ended by `/>` or `>`, parse_env_header_attrs
\* returns that terminator kind and a map with exactly one entry per attribute
\* name, name="value" mapped to Some(Text(value)) and a bare name to None,
\* whatever the white space between the attributes and before the terminator.
C6_AttrsParsed ==
    /\ pc # "panic"
    /\ pc = "env_body" =>
          LET written == WrittenAttrs(src)
              attrs == hdr.header.attrs
          IN  /\ hdr.stop_kind = (IF TerminatorOf(src) = <<">">> THEN TK("RightAngle")
                                  ELSE TK("EnvSelfClose"))
              /\ DOMAIN attrs = { NameOf(written[i]) : i \in 1..Len(written) }
              /\ \A i \in 1..Len(written) :
                    (\A j \in 1..Len(written) : NameOf(written[j]) = NameOf(written[i]) => j = i)
                        => EntryMatches(attrs[NameOf(written[i])], written[i])

\* the same for attribute lists that hold no multi-byte white space
C6_AsciiBlanks ==
    (\A i \in 1..Len(src) : src[i] # NBSP) => C6_AttrsParsed

-----------------------------------------------------------------------------
(* Engine: transform and transform_node_single_pass of visit.rs.  A visitor *)
(* is any implementation of the trait: what its enter answers for a node is *)
(* chosen freely among Keep, Replace, Remove and an error.                  *)
(* tpc = "loop":    at the head of the for loop of transform, or behind it  *)
(*                  when vidx = transformers + 1                            *)
(*       "descent": inside transform_node_single_pass                       *)
(*       "done":    transform returned                                      *)

\* the trees handed to transform
TText(id) == LeafNode(id, "Text", <<"x">>, Inserted)
TSelf(id) ==
    EnvNode(id, [kind |-> HKOther(<<"b">>), attrs |-> EmptyAttrs], "SelfClosing", <<>>, Inserted)
TEnv(id, children) ==
    EnvNode(id, [kind |-> HKOther(<<"a">>), attrs |-> EmptyAttrs], "Open", children, Inserted)

\* EnvNode::new_module
TModule(id, children) ==
    EnvNode(id, [kind |-> HKModule, attrs |-> EmptyAttrs], "Open", children, Source(PositionZero))

\* NodeKind::new_fragment
TFragment(id, children) ==
    EnvNode(id, [kind |-> HKFragment, attrs |-> EmptyAttrs], "Open", children, Inserted)

RECURSIVE IdsOf(_)
\* the ids of the nodes in a list of trees
IdsOf(nodes) ==
    IF nodes = <<>> THEN {}
    ELSE {Head(nodes).id} \cup IdsOf(Head(nodes).children) \cup IdsOf(Tail(nodes))

Trees ==
    { TText(0), TSelf(0), TModule(0, <<>>), TModule(1, <<TText(0)>>),
      TModule(3, <<TEnv(1, <<TText(0)>>), TSelf(2)>>) }

\* the first id NODE_ID_COUNTER hands out once the tree is built: one more than
\* the greatest id in the trees
FirstFreshId ==
    LET used == UNION { IdsOf(<<t>>) : t \in Trees }
    IN  1 + (CHOOSE m \in used : \A n \in used : n <= m)

\* Action::keep / Action::replace / Action::remove
Act(kind, node) == [kind |-> kind, node |-> node]

\* Action::append_children
AppendChildren(node, children) ==
    IF IsOpen(node) THEN Act("Replace", [node EXCEPT !.children = @ \o children])
    ELSE Act("Keep", node)

\* The nodes a visitor may answer Replace with, and the ids each uses up: the
\* node itself, a new leaf, a new fragment around a new leaf, and for an Open
\* environment the node with a new leaf appended
Replacements(node, id) ==
    { [node |-> node, used |-> 0],
      [node |-> TText(id), used |-> 1],
      [node |-> TFragment(id + 1, <<TText(id)>>), used |-> 2] }
    \cup (IF IsOpen(node)
          THEN { [node |-> AppendChildren(node, <<TText(id)>>).node, used |-> 1] }
          ELSE {})

\* a visitor of the list: wrapped in a TransformerOnce or not, and what it is:
\* "Any" for a visitor whose answers are left open, "Variables" for the
\* Variables visitor
Visitor(once, inner) == [once |-> once, inner |-> inner]

\* a TransformerOnce::enter that hands on every call
OnceEnterDelegatesAlways(visited_ids, id) == TRUE

\* TransformerOnce::enter: self.visited.contains(&node.id) decides whether the
\* wrapped enter is called
OnceEnterDelegates(visited_ids, id) == id \notin visited_ids

\* a TransformerOnce::leave that hands on every call
OnceLeaveDelegatesAlways(visited_ids, id) == TRUE

\* TransformerOnce::leave: !self.visited.contains(&original_id) decides whether
\* the id is inserted and the wrapped leave is called
OnceLeaveDelegates(visited_ids, id) == id \notin visited_ids

\* TransformerOnce::leave: self.visited.insert(original_id)
OnceInsert(visited_ids, id) == visited_ids \cup {id}

\* Variables::leave
VariablesLeave(scps, node_id) ==
    IF scps # <<>> /\ scps[Len(scps)].node_id = node_id
    THEN SubSeq(scps, 1, Len(scps) - 1)
    ELSE scps

\* the state the visitors keep between calls
VisitorState(vis, del, scps) == [visited |-> vis, delegated |-> del, scopes |-> scps]

SetVisitorState(st) ==
    /\ visited' = st.visited
    /\ delegated' = st.delegated
    /\ scopes' = st.scopes

\* a call a TransformerOnce hands on
Reached(op, v, id) == [op |-> op, visitor |-> v, id |-> id]

\* enter of visitor v reaches the visitor itself
EnterDelegated(v, id) ==
    IF visitors[v].once THEN OnceEnterDelegates(visited[v], id) ELSE TRUE

\* leave of visitor v reaches the visitor itself
LeaveDelegated(v, id) ==
    IF visitors[v].once THEN OnceLeaveDelegates(visited[v], id) ELSE TRUE

\* a TransformerOnce that marks the node at enter
AfterEnterCallMarks(v, id, scps) ==
    VisitorState(IF visitors[v].once THEN [visited EXCEPT ![v] = OnceInsert(@, id)] ELSE visited,
                 IF visitors[v].once /\ OnceEnterDelegates(visited[v], id)
                 THEN Append(delegated, Reached("enter", v, id)) ELSE delegated,
                 scps)

\* the state of the visitors behind transformer.enter(node, ..) of visitor v,
\* scps being the scopes the visitor itself leaves
AfterEnterCall(v, id, scps) ==
    VisitorState(visited,
                 IF visitors[v].once /\ OnceEnterDelegates(visited[v], id)
                 THEN Append(delegated, Reached("enter", v, id)) ELSE delegated,
                 scps)

\* the state of the visitors behind transformer.leave(.., original_id, ..) of visitor v
AfterLeaveCall(st, v, original_id) ==
    IF visitors[v].once
    THEN IF OnceLeaveDelegates(st.visited[v], original_id)
         THEN VisitorState([st.visited EXCEPT ![v] = OnceInsert(@, original_id)],
                           Append(st.delegated, Reached("leave", v, original_id)),
                           IF visitors[v].inner = "Variables"
                           THEN VariablesLeave(st.scopes, original_id) ELSE st.scopes)
         ELSE st
    ELSE VisitorState(st.visited, st.delegated,
                      IF visitors[v].inner = "Variables"
                      THEN VariablesLeave(st.scopes, original_id) ELSE st.scopes)

\* one activation of transform_node_single_pass
Call(node, parent_id) ==
    [phase |-> "enter", node |-> node, original_id |-> node.id, parent_id |-> parent_id,
     enter_kind |-> "-", todo |-> <<>>, done |-> <<>>]

TopCall == calls[Len(calls)]

\* what transform_node_single_pass does with the answer of enter: return it at
\* once, descend into the children, or call leave and return it
AfterEnterKeepsGoing(act) == IF IsOpen(act.node) THEN "children" ELSE "leave"

AfterEnter(act) ==
    IF act.kind = "Remove" THEN "return"
    ELSE IF IsOpen(act.node) THEN "children"
    ELSE "leave"

\* the filter over the children's actions: has_changed
HasChanged(done) == \E i \in 1..Len(done) : done[i].kind \in {"Remove", "Replace"}

\* a filter that lets every child through
KeptChildrenAll(done) == [i \in 1..Len(done) |-> done[i].node]

RECURSIVE KeptChildren(_)
\* the filter over the children's actions: the nodes that stay
KeptChildren(done) ==
    IF done = <<>> THEN <<>>
    ELSE (IF Head(done).kind = "Remove" THEN <<>> ELSE <<Head(done).node>>)
             \o KeptChildren(Tail(done))

\* has_changed that starts out true
OpenResultAlwaysReplace(enter_kind, has_changed, node) == Act("Replace", node)

\* the action built for an Open environment once its children are done
OpenResult(enter_kind, has_changed, node) ==
    IF has_changed THEN Act("Replace", node) ELSE Act("Keep", node)

\* the calls on the visitor, as logged
Entered(c, kind) ==
    [op |-> "enter", visitor |-> vidx, id |-> c.node.id, parent |-> c.parent_id,
     kind |-> kind, below |-> IdsOf(c.node.children),
     inner |-> EnterDelegated(vidx, c.node.id)]
\* a leave that is handed the id of the node it is handed
LeftWithFinalId(c, node) ==
    [op |-> "leave", visitor |-> vidx, id |-> node.id, parent |-> c.parent_id,
     kind |-> "-", below |-> IdsOf(node.children),
     inner |-> LeaveDelegated(vidx, node.id)]

\* transformer.leave(&transform_action.node, original_id, parent_id), as logged
Left(c, node) ==
    [op |-> "leave", visitor |-> vidx, id |-> c.original_id, parent |-> c.parent_id,
     kind |-> "-", below |-> IdsOf(node.children),
     inner |-> LeaveDelegated(vidx, c.original_id)]

\* transform_node_single_pass returns act: to the activation that descended
\* into this child, or to the for loop of transform
Return(act) ==
    IF Len(calls) = 1
    THEN /\ action' = act
         /\ vidx' = vidx + 1
         /\ calls' = <<>>
         /\ tpc' = "loop"
    ELSE /\ calls' = [SubSeq(calls, 1, Len(calls) - 1) EXCEPT
                         ![Len(calls) - 1].done = Append(@, act),
                         ![Len(calls) - 1].todo = Tail(@)]
         /\ UNCHANGED <<action, vidx, tpc>>

\* transformer.enter(node, parent_id) answered act, using up `used` new ids and
\* leaving the scopes of a Variables visitor as scps
EnterThen(act, used, scps) ==
    /\ next_id' = next_id + used
    /\ changes' = IF act.kind = "Keep" THEN changes ELSE changes + 1
    /\ CASE AfterEnter(act) = "return" ->
               /\ log' = Append(log, Entered(TopCall, act.kind))
               /\ Return(act)
               /\ SetVisitorState(AfterEnterCall(vidx, TopCall.node.id, scps))
         [] AfterEnter(act) = "children" ->
               /\ log' = Append(log, Entered(TopCall, act.kind))
               /\ calls' = [calls EXCEPT ![Len(calls)] =
                               [@ EXCEPT !.phase = "children", !.node = act.node,
                                         !.enter_kind = act.kind, !.todo = act.node.children]]
               /\ SetVisitorState(AfterEnterCall(vidx, TopCall.node.id, scps))
               /\ UNCHANGED <<action, vidx, tpc>>
         [] OTHER ->
               /\ log' = log \o <<Entered(TopCall, act.kind), Left(TopCall, act.node)>>
               /\ Return(act)
               /\ SetVisitorState(AfterLeaveCall(AfterEnterCall(vidx, TopCall.node.id, scps),
                                                 vidx, TopCall.original_id))
    /\ UNCHANGED <<pvars, given, transformers, max_passes, iterations, result>>

\* the same for a visitor that keeps no scopes
EnterWith(act, used) == EnterThen(act, used, scopes)

AtEnter == tpc = "descent" /\ TopCall.phase = "enter"

\* enter answers Ok(Action::keep(node))
EnterKeep ==
    /\ AtEnter
    /\ IF EnterDelegated(vidx, TopCall.node.id) THEN visitors[vidx].inner = "Any" ELSE TRUE
    /\ EnterWith(Act("Keep", TopCall.node), 0)

\* enter answers Ok(Action::replace(..))
EnterReplace ==
    /\ AtEnter
    /\ visitors[vidx].inner = "Any" /\ EnterDelegated(vidx, TopCall.node.id)
    /\ changes < MaxChanges
    /\ \E r \in Replacements(TopCall.node, next_id) : EnterWith(Act("Replace", r.node), r.used)

\* enter answers Ok(Action::remove(node))
EnterRemove ==
    /\ AtEnter
    /\ visitors[vidx].inner = "Any" /\ EnterDelegated(vidx, TopCall.node.id)
    /\ changes < MaxChanges
    /\ EnterWith(Act("Remove", TopCall.node), 0)

\* a `?` that lets the error pass: the node is kept and the descent goes on
QuestionMarkGoesOn(kind) == "go"

\* the `?` behind transformer.enter(..), behind the collect over the children
\* and behind transform_node_single_pass(..) in transform: an Err leaves the
\* function, and so every caller up to the caller of transform
QuestionMark(kind) == IF kind = "Err" THEN "return" ELSE "go"

\* transformer.enter(..)? with enter answering the error e
EnterFailed(e) ==
    /\ log' = Append(log, Entered(TopCall, "Err"))
    /\ SetVisitorState(AfterEnterCall(vidx, TopCall.node.id, scopes))
    /\ IF QuestionMark("Err") = "return"
       THEN /\ calls' = <<>>
            /\ result' = [kind |-> e, node |-> NoNode]
            /\ tpc' = "done"
       ELSE /\ calls' = [calls EXCEPT ![Len(calls)] =
                            [@ EXCEPT !.phase = "children", !.enter_kind = "Keep",
                                      !.todo = TopCall.node.children]]
            /\ UNCHANGED <<result, tpc>>
    /\ UNCHANGED <<pvars, given, next_id, transformers, max_passes, action, iterations, vidx,
                   changes>>

\* enter answers Err(..): the `?` hands the error up to the caller of transform
EnterError ==
    /\ AtEnter
    /\ visitors[vidx].inner = "Any" /\ EnterDelegated(vidx, TopCall.node.id)
    /\ EnterFailed("Unknown")

\* a map over the children that takes them from the back
DescendFromTheBack ==
    /\ tpc = "descent"
    /\ TopCall.phase = "children"
    /\ TopCall.todo # <<>>
    /\ calls' = Append(calls, Call(TopCall.todo[Len(TopCall.todo)], <<TopCall.node.id>>))
    /\ UNCHANGED <<pvars, given, visited, delegated, scopes, next_id, transformers, max_passes, action, iterations, vidx, log,
                   changes, result, tpc>>

\* the map over the children: transform_node_single_pass(child, Some(id), transformer)
Descend ==
    /\ tpc = "descent"
    /\ TopCall.phase = "children"
    /\ TopCall.todo # <<>>
    /\ calls' = Append(calls, Call(Head(TopCall.todo), <<TopCall.node.id>>))
    /\ UNCHANGED <<pvars, given, visited, delegated, scopes, next_id, transformers, max_passes, action, iterations, vidx, log,
                   changes, result, tpc>>

\* the children of an Open environment are done: rebuild the node, call leave, return
LeaveOpen ==
    /\ tpc = "descent"
    /\ TopCall.phase = "children"
    /\ TopCall.todo = <<>>
    /\ LET c == TopCall
           node == [c.node EXCEPT !.children = KeptChildren(c.done)]
       IN  /\ log' = Append(log, Left(c, node))
           /\ Return(OpenResult(c.enter_kind, HasChanged(c.done), node))
           /\ SetVisitorState(AfterLeaveCall(VisitorState(visited, delegated, scopes),
                                             vidx, c.original_id))
    /\ UNCHANGED <<pvars, given, next_id, transformers, max_passes, iterations, changes, result>>

\* the for loop of transform hands the tree to the next visitor
RunVisitor ==
    /\ tpc = "loop"
    /\ vidx <= transformers
    /\ action.kind # "Remove"
    /\ calls' = <<Call(action.node, <<>>)>>
    /\ log' = <<>>
    /\ tpc' = "descent"
    /\ UNCHANGED <<pvars, given, visited, delegated, scopes, next_id, transformers, max_passes, action, iterations, vidx, changes,
                   result>>

\* ActionKind::Remove => return Err(VisitError::RootRemoved)
ReturnRootRemoved ==
    /\ tpc = "loop"
    /\ vidx <= transformers
    /\ action.kind = "Remove"
    /\ result' = [kind |-> "RootRemoved", node |-> NoNode]
    /\ tpc' = "done"
    /\ UNCHANGED <<pvars, given, visited, delegated, scopes, next_id, transformers, max_passes, action, iterations, vidx, calls,
                   log, changes>>

\* a loop that never gives up
PassOutcomeNoLimit(kind, n, limit) == IF kind = "Keep" THEN "ok" ELSE "again"

\* the match behind the for loop: return, go round again, or give up
PassOutcomeLenient(kind, n, limit) ==
    IF kind # "Remove" THEN "ok" ELSE IF n + 1 > limit THEN "limit" ELSE "again"

PassOutcome(kind, n, limit) ==
    IF kind = "Keep" THEN "ok" ELSE IF n + 1 > limit THEN "limit" ELSE "again"

AtPassEnd == tpc = "loop" /\ vidx = transformers + 1

\* ActionKind::Keep => return Ok(action.node)
ReturnOk ==
    /\ AtPassEnd
    /\ PassOutcome(action.kind, iterations, max_passes) = "ok"
    /\ result' = [kind |-> "Ok", node |-> action.node]
    /\ tpc' = "done"
    /\ UNCHANGED <<pvars, given, visited, delegated, scopes, next_id, transformers, max_passes, action, iterations, vidx, calls,
                   log, changes>>

\* iterations += 1, and the loop goes round again
NextPass ==
    /\ AtPassEnd
    /\ PassOutcome(action.kind, iterations, max_passes) = "again"
    /\ iterations' = iterations + 1
    /\ vidx' = 1
    /\ UNCHANGED <<pvars, given, visited, delegated, scopes, next_id, transformers, max_passes, action, calls, log, changes,
                   result, tpc>>

\* iterations += 1; if iterations > max_passes { return Err(MaxIterationsReached) }
ReturnMaxIterations ==
    /\ AtPassEnd
    /\ PassOutcome(action.kind, iterations, max_passes) = "limit"
    /\ iterations' = iterations + 1
    /\ result' = [kind |-> "MaxIterationsReached", node |-> NoNode]
    /\ tpc' = "done"
    /\ UNCHANGED <<pvars, given, visited, delegated, scopes, next_id, transformers, max_passes, action, vidx, calls, log, changes>>

NextVisit ==
    \/ EnterKeep
    \/ EnterReplace
    \/ EnterRemove
    \/ EnterError
    \/ Descend
    \/ LeaveOpen
    \/ RunVisitor
    \/ ReturnRootRemoved
    \/ ReturnOk
    \/ NextPass
    \/ ReturnMaxIterations

\* the parser is not running
ParserIdle ==
    /\ src = <<>>
    /\ cursor = NewCursor(<<>>)
    /\ tokens = <<>>
    /\ errors = <<>>
    /\ dynamic_state = NewDynamicState
    /\ stack = <<>>
    /\ stop = NoToken
    /\ hdr = NoHdr
    /\ pc = "idle"
    /\ root = NoNode

\* transform(node, transformers, max_passes) is called
InitVisit ==
    /\ ParserIdle
    /\ next_id = FirstFreshId
    /\ transformers \in 0..MaxVisitors
    /\ max_passes \in 0..MaxPasses
    /\ document \in Trees
    /\ visitors = [i \in 1..transformers |-> Visitor(FALSE, "Any")]
    /\ visited = [i \in 1..transformers |-> {}]
    /\ delegated = <<>>
    /\ scopes = <<>>
    /\ issued = <<>>
    /\ threads = <<>>
    /\ action = Act("Replace", document)
    /\ iterations = 0
    /\ vidx = 1
    /\ calls = <<>>
    /\ log = <<>>
    /\ changes = 0
    /\ result = [kind |-> "-", node |-> NoNode]
    /\ tpc = "loop"

SpecVisit == InitVisit /\ [][NextVisit]_vars

\* transform(node, transformers, max_passes) is called with visitors that are
\* each wrapped in a TransformerOnce
InitOnce ==
    /\ ParserIdle
    /\ next_id = FirstFreshId
    /\ transformers \in 1..MaxVisitors
    /\ max_passes \in 0..MaxPasses
    /\ document \in Trees
    /\ visitors = [i \in 1..transformers |-> Visitor(TRUE, "Any")]
    /\ visited = [i \in 1..transformers |-> {}]
    /\ delegated = <<>>
    /\ scopes = <<>>
    /\ issued = <<>>
    /\ threads = <<>>
    /\ action = Act("Replace", document)
    /\ iterations = 0
    /\ vidx = 1
    /\ calls = <<>>
    /\ log = <<>>
    /\ changes = 0
    /\ result = [kind |-> "-", node |-> NoNode]
    /\ tpc = "loop"

\* the longest visitor list of the runs that are followed to their end
MaxListed == 1

\* a transform that takes the tree it is given for unchanged
FirstActionKeep(node) == Act("Keep", node)

\* let mut action = Action::replace(node)
FirstAction(node) == Act("Replace", node)

\* transform(node, transformers, max_passes) is called with a short visitor list
InitShortLists ==
    /\ ParserIdle
    /\ next_id = FirstFreshId
    /\ transformers \in 0..MaxListed
    /\ max_passes \in 0..MaxPasses
    /\ document \in Trees
    /\ visitors = [i \in 1..transformers |-> Visitor(FALSE, "Any")]
    /\ visited = [i \in 1..transformers |-> {}]
    /\ delegated = <<>>
    /\ scopes = <<>>
    /\ issued = <<>>
    /\ threads = <<>>
    /\ action = FirstAction(document)
    /\ iterations = 0
    /\ vidx = 1
    /\ calls = <<>>
    /\ log = <<>>
    /\ changes = 0
    /\ result = [kind |-> "-", node |-> NoNode]
    /\ tpc = "loop"

\* transform runs on: the caller waits for it and every visitor call returns
SpecVisitFair == InitShortLists /\ [][NextVisit]_vars /\ WF_vars(NextVisit)

SpecOnce == InitOnce /\ [][NextVisit]_vars

-----------------------------------------------------------------------------
(* The Variables visitor of visitors/variables.rs, run by transform on its  *)
(* own or wrapped in a TransformerOnce.                                     *)

\* impl Clone for Node: the copy of a node whose ids are those of the original
CloneKeepsIds(n, id) == [node |-> n, next |-> id]

RECURSIVE CloneNode(_, _), CloneList(_, _), CloneAttrs(_, _, _)

\* the clone once the children are cloned (kids) and the attributes (attrs)
Cloned(n, id, kids, attrs) ==
    [node |-> [n EXCEPT !.id = id, !.children = kids.nodes, !.header.attrs = attrs.attrs],
     next |-> attrs.next]

\* EnvNode derives Clone: kind (the children) is cloned before header (the attributes)
CloneHeader(n, id, kids) ==
    Cloned(n, id, kids, CloneAttrs(n.header.attrs, DOMAIN n.header.attrs, kids.next))

\* impl Clone for Node: Node::generate_id() for the node, then kind.clone();
\* id is NODE_ID_COUNTER before the call, next is NODE_ID_COUNTER after it
CloneNode(n, id) == CloneHeader(n, id, CloneList(n.children, id + 1))

\* the clone of a list once its head is cloned
ClonedList(first, rest) == [nodes |-> <<first.node>> \o rest.nodes, next |-> rest.next]
CloneTail(nodes, first) == ClonedList(first, CloneList(Tail(nodes), first.next))

\* VecDeque<Node>::clone, Option<Node>::clone: the nodes are cloned in order
CloneList(nodes, id) ==
    IF nodes = <<>> THEN [nodes |-> <<>>, next |-> id]
    ELSE CloneTail(nodes, CloneNode(Head(nodes), id))

\* the clone of a map once one of its entries (key) is cloned and the others are
ClonedAttrs(key, value, others) ==
    [attrs |-> AttrsInsert(others.attrs, key, value.nodes), next |-> others.next]
CloneOthers(attrs, keys, key, value) ==
    ClonedAttrs(key, value, CloneAttrs(attrs, keys \ {key}, value.next))

\* HashMap<String, Option<Node>>::clone: the entries are cloned in the order
\* the map iterates
CloneAttrs(attrs, keys, id) ==
    IF keys = {} THEN [attrs |-> EmptyAttrs, next |-> id]
    ELSE CloneOthers(attrs, keys, CHOOSE k \in keys : TRUE,
                     CloneList(attrs[CHOOSE k \in keys : TRUE], id))

\* Scope
Scope(node_id, values) == [node_id |-> node_id, values |-> values]

\* a resolve that scans the stack from the bottom
RECURSIVE ResolveFromBottom(_, _, _)
ResolveFromBottom(scps, k, name) ==
    IF scps = <<>> THEN <<>>
    ELSE IF name \in DOMAIN Head(scps).values THEN <<Head(scps).values[name]>>
    ELSE ResolveFromBottom(Tail(scps), k, name)

RECURSIVE ResolveFrom(_, _, _)
\* the for loop of Variables::resolve over self.scopes.iter().rev(), at scope k
ResolveFrom(scps, k, name) ==
    IF k = 0 THEN <<>>
    ELSE IF name \in DOMAIN scps[k].values THEN <<scps[k].values[name]>>
    ELSE ResolveFrom(scps, k - 1, name)

\* Variables::resolve: the value as a sequence of zero or one node
Resolve(scps, name) == ResolveFrom(scps, Len(scps), name)

\* Variables::define
Define(scps, node_id, name, value) ==
    IF scps # <<>> /\ scps[Len(scps)].node_id = node_id
    THEN [scps EXCEPT ![Len(scps)].values = AttrsInsert(@, name, value)]
    ELSE Append(scps, Scope(node_id, AttrsInsert(EmptyAttrs, name, value)))

VarName == <<"v", "a", "r">>

\* a match without the arm for variable expressions
IsNoVariableExpression(n) == FALSE

\* the arms of the match in Variables::enter
IsVariableExpression(n) == n.kind = "Leaf" /\ n.leaf = "VariableExpression"
IsVarDefinition(n) == n.kind = "Env" /\ n.header.kind = HKOther(VarName)

\* attrs.iter().next(): the first entry of the map, if any
FirstKey(attrs) == CHOOSE k \in DOMAIN attrs : TRUE

\* the value of a definition as a sequence of zero or one node: the only child
\* of <var name>value</var>, the attribute value of <var name="value" />
DefinedValue(n) ==
    IF n.envkind = "Open" THEN <<n.children[1]>> ELSE n.header.attrs[FirstKey(n.header.attrs)]

\* what Variables::enter does for a definition: parent_id.unwrap() and todo!()
\* panic, ok_or(..)? returns an error, and else the variable is defined
DefinitionOutcome(n, parent_id) ==
    IF parent_id = <<>> THEN "panic"
    ELSE IF DOMAIN n.header.attrs = {} THEN "error"
    ELSE IF n.envkind = "Open" /\ Len(n.children) # 1 THEN "panic"
    ELSE IF DefinedValue(n) = <<>> THEN "error"
    ELSE "define"

\* Node { id: Node::generate_id(), ..value.clone() }: the id is drawn first, the
\* clone then draws one for every node of the value
FreshCopy(copy, id) == [node |-> [copy.node EXCEPT !.id = id], next |-> copy.next]
ResolvedCopy(value, id) == FreshCopy(CloneNode(value, id + 1), id)

\* enter of the Variables visitor is called
AtVariablesEnter ==
    /\ AtEnter
    /\ visitors[vidx].inner = "Variables"
    /\ EnterDelegated(vidx, TopCall.node.id)

\* NodeKind::Leaf(LeafNode::VariableExpression(expr)), resolved
VarUse ==
    /\ AtVariablesEnter
    /\ IsVariableExpression(TopCall.node)
    /\ Resolve(scopes, TopCall.node.value) # <<>>
    /\ LET copy == ResolvedCopy(Resolve(scopes, TopCall.node.value)[1], next_id)
       IN  EnterThen(Act("Replace", copy.node), copy.next - next_id, scopes)

\* NodeKind::Leaf(LeafNode::VariableExpression(expr)), self.resolve(&expr) is None
VarUnresolved ==
    /\ AtVariablesEnter
    /\ IsVariableExpression(TopCall.node)
    /\ Resolve(scopes, TopCall.node.value) = <<>>
    /\ EnterFailed("Unknown")

\* an environment named var: self.define(parent_id, key, value.clone())
VarDefine ==
    /\ AtVariablesEnter
    /\ IsVarDefinition(TopCall.node)
    /\ DefinitionOutcome(TopCall.node, TopCall.parent_id) = "define"
    /\ LET copy == CloneNode(DefinedValue(TopCall.node)[1], next_id)
       IN  EnterThen(Act("Remove", TopCall.node), copy.next - next_id,
                     Define(scopes, TopCall.parent_id[1], FirstKey(TopCall.node.header.attrs),
                            copy.node))

\* an environment named var without attribute or without value
VarDefineFails ==
    /\ AtVariablesEnter
    /\ IsVarDefinition(TopCall.node)
    /\ DefinitionOutcome(TopCall.node, TopCall.parent_id) = "error"
    /\ EnterFailed("Unknown")

\* an environment named var that is the root, or that has not exactly one child
VarPanics ==
    /\ AtVariablesEnter
    /\ IsVarDefinition(TopCall.node)
    /\ DefinitionOutcome(TopCall.node, TopCall.parent_id) = "panic"
    /\ log' = Append(log, Entered(TopCall, "panic"))
    /\ SetVisitorState(AfterEnterCall(vidx, TopCall.node.id, scopes))
    /\ calls' = <<>>
    /\ result' = [kind |-> "panic", node |-> NoNode]
    /\ tpc' = "done"
    /\ UNCHANGED <<pvars, given, next_id, transformers, max_passes, action, iterations, vidx,
                   changes>>

\* _ => Ok(Action::keep(node))
VarKeep ==
    /\ AtVariablesEnter
    /\ ~IsVariableExpression(TopCall.node)
    /\ ~IsVarDefinition(TopCall.node)
    /\ EnterThen(Act("Keep", TopCall.node), 0, scopes)

NextVariables ==
    \/ VarUse
    \/ VarUnresolved
    \/ VarDefine
    \/ VarDefineFails
    \/ VarPanics
    \/ VarKeep
    \/ EnterKeep
    \/ Descend
    \/ LeaveOpen
    \/ RunVisitor
    \/ ReturnOk
    \/ NextPass
    \/ ReturnMaxIterations

\* the documents handed to transform with the Variables visitor
VText(id, value) == LeafNode(id, "Text", value, Inserted)
VRef(id, name) == LeafNode(id, "VariableExpression", name, Inserted)

\* <var name>value</var> and <var name="value" /> as the parser builds them
VDef(id, name, children) ==
    EnvNode(id, [kind |-> HKOther(VarName), attrs |-> AttrsInsert(EmptyAttrs, name, <<>>)],
            "Open", children, Inserted)
VDefSelf(id, name, value) ==
    EnvNode(id, [kind |-> HKOther(VarName), attrs |-> AttrsInsert(EmptyAttrs, name, value)],
            "SelfClosing", <<>>, Inserted)
VDefEmpty(id) ==
    EnvNode(id, [kind |-> HKOther(VarName), attrs |-> EmptyAttrs], "SelfClosing", <<>>, Inserted)

X == <<"x">>
Y == <<"y">>
Z == <<"z">>

Documents ==
    { \* a definition inside an environment, used inside and behind it
      TModule(0, <<TEnv(1, <<VDef(2, X, <<VText(3, <<"1">>)>>), VRef(4, X)>>), VRef(5, X)>>),
      \* a definition that shadows one of the enclosing environment
      TModule(0, <<VDef(1, X, <<VText(2, <<"1">>)>>),
                   TEnv(3, <<VDef(4, X, <<VText(5, <<"2">>)>>), VRef(6, X)>>),
                   VRef(7, X)>>),
      \* a value that holds a definition, used inside an environment and behind it
      TModule(0, <<TEnv(1, <<VDef(2, Y, <<TEnv(3, <<VDef(4, Z, <<VText(5, <<"1">>)>>)>>)>>),
                             VRef(6, Y)>>),
                   VRef(7, Y)>>),
      \* a value that is the text of a sibling
      TModule(0, <<VText(1, <<"1">>), VDef(2, Y, <<VText(3, <<"1">>)>>), VRef(4, Y)>>),
      \* definitions by attribute, with and without a value
      TModule(0, <<VDefSelf(1, Y, <<VText(2, <<"1">>)>>), VRef(3, Y), VRef(4, Z)>>),
      TModule(0, <<VDefSelf(1, Y, <<>>)>>),
      TModule(0, <<VDefEmpty(1)>>),
      \* definitions that have not exactly one child, a definition as the root
      TModule(0, <<VDef(1, Y, <<>>)>>),
      TModule(0, <<VText(1, <<"1">>), VDef(2, Y, <<VText(3, <<"1">>), VText(4, <<"2">>)>>)>>),
      VDef(0, Y, <<VText(1, <<"1">>)>>),
      \* no variables at all
      TModule(0, <<TEnv(1, <<VText(2, <<"1">>)>>), TSelf(3)>>) }

RECURSIVE AllIds(_)
\* the ids of the nodes in a list of trees, those of attribute values included
AllIds(nodes) ==
    IF nodes = <<>> THEN {}
    ELSE {Head(nodes).id}
         \cup AllIds(Head(nodes).children)
         \cup UNION { AllIds(Head(nodes).header.attrs[k]) : k \in DOMAIN Head(nodes).header.attrs }
         \cup AllIds(Tail(nodes))

\* NODE_ID_COUNTER once the tree is built: one more than the greatest id in it
CounterBehind(tree) == 1 + (CHOOSE m \in AllIds(<<tree>>) : \A n \in AllIds(<<tree>>) : n <= m)

\* transform(node, [Variables::new()], max_passes) or
\* transform(node, [TransformerOnce::new(Variables::new())], max_passes) is called
InitVariables ==
    /\ ParserIdle
    /\ document \in Documents
    /\ next_id = CounterBehind(document)
    /\ transformers = 1
    /\ max_passes \in 0..MaxPasses
    /\ \E once \in BOOLEAN : visitors = <<Visitor(once, "Variables")>>
    /\ visited = <<{}>>
    /\ delegated = <<>>
    /\ scopes = <<>>
    /\ issued = <<>>
    /\ threads = <<>>
    /\ action = Act("Replace", document)
    /\ iterations = 0
    /\ vidx = 1
    /\ calls = <<>>
    /\ log = <<>>
    /\ changes = 0
    /\ result = [kind |-> "-", node |-> NoNode]
    /\ tpc = "loop"

SpecVariables == InitVariables /\ [][NextVariables]_vars

\* documents whose values hold references: a value that is a reference, and a
\* value that is an environment around a reference
ReferenceDocuments ==
    { TModule(0, <<VDef(1, X, <<VText(2, <<"1">>)>>), VDef(3, Y, <<VRef(4, X)>>), VRef(5, Y)>>),
      TModule(0, <<VDef(1, X, <<VText(2, <<"1">>)>>),
                   VDef(3, Y, <<TEnv(4, <<VRef(5, X)>>)>>),
                   VRef(6, Y)>>) }

\* transform with the Variables visitor, wrapped or not, over all these documents
InitReferences ==
    /\ ParserIdle
    /\ document \in Documents \cup ReferenceDocuments
    /\ next_id = CounterBehind(document)
    /\ transformers = 1
    /\ max_passes \in 0..MaxPasses
    /\ \E once \in BOOLEAN : visitors = <<Visitor(once, "Variables")>>
    /\ visited = <<{}>>
    /\ delegated = <<>>
    /\ scopes = <<>>
    /\ issued = <<>>
    /\ threads = <<>>
    /\ action = Act("Replace", document)
    /\ iterations = 0
    /\ vidx = 1
    /\ calls = <<>>
    /\ log = <<>>
    /\ changes = 0
    /\ result = [kind |-> "-", node |-> NoNode]
    /\ tpc = "loop"

SpecReferences == InitReferences /\ [][NextVariables]_vars

-----------------------------------------------------------------------------
(* The scanner called on its own (parse.rs, Parser::try_parse_token,       *)
(* Parser::seek_to, Parser::seek_to_and_capture)                           *)
(* The parser is built over a source, its cursor is moved by next_char and  *)
(* one of the three functions is called once. stack holds the call made:    *)
(* its name, its arguments and the cursor it started from. pc is "scan"     *)
(* before the call; behind it "some" or "none" for the Option returned by   *)
(* try_parse_token and seek_to, "returned" for seek_to_and_capture, "panic" *)
(* for a panic. stop is the token returned, tokens and errors the store.    *)

\* a source handed to the scanner is a concatenation of at most MaxScanPieces pieces
MaxScanPieces == 2

ClosingA == <<"<", "/", "a", ">">>

ScannerPieces ==
    { <<"x">>, <<BSL>>, ClosingA, <<"<", "a">>, <<"$">>, <<"$", "{">>, <<" ">>, <<NBSP>> }

ScannerSources == SourcesOver(ScannerPieces, MaxScanPieces)

\* the kinds try_parse_token has a matcher for
MatchableKinds ==
    { TK("EnvOpen"), TK("FragmentOpen"), TK("FragmentClose"), TK("Whitespace"),
      TK("EndOfModule"), TK("DollarBrace"), TK("RightBrace"), TK("Dollar"), TK("Equals"),
      TK("Quote"), TK("EndOfLine"), TK("CommentOpen"), TK("CommentClose"), TK("EnvSelfClose"),
      TK("RightAngle"), TKEnvClose(ClosingA), TK("HeadingOpen") }

\* lists of end kinds the parser seeks: those of parse_children at top level,
\* inside <a> and inside an inline equation, those of a tag name and of the
\* attribute loop, and that of a raw body
EndKindLists ==
    { ChildKinds(TK("EndOfModule")), ChildKinds(TKEnvClose(ClosingA)), ChildKinds(TK("Dollar")),
      NameEndKinds, AttrEndKinds, <<TKEnvClose(ClosingA)>> }

CapturedKinds == {"Text", "AttrName"}

ScannerCall(op, kinds, captured_kind) ==
    [op |-> op, kinds |-> kinds, captured_kind |-> captured_kind, from |-> cursor]

\* Parser::next_char is called
ScanNextChar ==
    /\ pc = "scan"
    /\ cursor.remaining # <<>>
    /\ cursor' = NextChar(cursor)
    /\ UNCHANGED <<evars, src, tokens, errors, dynamic_state, stack, stop, hdr, pc, root, next_id>>

\* Parser::try_parse_token(kind) is called
ScanTryParseToken ==
    /\ pc = "scan"
    /\ \E kind \in MatchableKinds :
          LET r == TryParseToken(cursor, kind)
          IN  /\ stack' = <<ScannerCall("try_parse_token", <<kind>>, "-")>>
              /\ IF r.panic
                 THEN /\ pc' = "panic"
                      /\ UNCHANGED <<cursor, stop>>
                 ELSE /\ cursor' = r.cur
                      /\ stop' = IF r.ok THEN Token(kind, r.value, cursor.position) ELSE NoToken
                      /\ pc' = IF r.ok THEN "some" ELSE "none"
    /\ UNCHANGED <<evars, src, tokens, errors, dynamic_state, hdr, root, next_id>>

\* Parser::seek_to(kinds) is called
ScanSeekTo ==
    /\ pc = "scan"
    /\ \E kinds \in EndKindLists :
          LET r == SeekTo(cursor, kinds)
          IN  /\ stack' = <<ScannerCall("seek_to", kinds, "-")>>
              /\ IF r.panic
                 THEN /\ pc' = "panic"
                      /\ UNCHANGED <<cursor, stop>>
                 ELSE /\ cursor' = r.cur
                      /\ stop' = IF r.found THEN r.token ELSE NoToken
                      /\ pc' = IF r.found THEN "some" ELSE "none"
    /\ UNCHANGED <<evars, src, tokens, errors, dynamic_state, hdr, root, next_id>>

\* Parser::seek_to_and_capture(captured_kind, end_kinds) is called
ScanSeekToAndCapture ==
    /\ pc = "scan"
    /\ \E end_kinds \in EndKindLists, captured_kind \in CapturedKinds :
          LET r == SeekToAndCapture(cursor, captured_kind, end_kinds)
          IN  /\ stack' = <<ScannerCall("seek_to_and_capture", end_kinds, captured_kind)>>
              /\ IF r.panic
                 THEN /\ pc' = "panic"
                      /\ UNCHANGED <<cursor, stop, tokens, errors>>
                 ELSE /\ cursor' = r.cur
                      /\ tokens' = tokens \o r.captured \o <<r.end>>
                      /\ errors' = errors \o r.error
                      /\ stop' = r.end
                      /\ pc' = "returned"
    /\ UNCHANGED <<evars, src, dynamic_state, hdr, root, next_id>>

NextScanner ==
    \/ ScanNextChar
    \/ ScanTryParseToken
    \/ ScanSeekTo
    \/ ScanSeekToAndCapture

\* Parser::new(src)
InitScanner ==
    /\ src \in ScannerSources
    /\ cursor = NewCursor(src)
    /\ tokens = <<>>
    /\ errors = <<>>
    /\ dynamic_state = NewDynamicState
    /\ stack = <<>>
    /\ stop = NoToken
    /\ hdr = NoHdr
    /\ pc = "scan"
    /\ root = NoNode
    /\ next_id = 0
    /\ EngineIdle

SpecScanner == InitScanner /\ [][NextScanner]_vars

-----------------------------------------------------------------------------
(* The ComponentInsert visitor (plugins/components.rs)                     *)

\* char::is_uppercase, over the letters the documents use
UppercaseLetters ==
    {"A", "B", "C", "D", "E", "F", "G", "H", "I", "J", "K", "L", "M", "N", "O", "P", "Q", "R",
     "S", "T", "U", "V", "W", "X", "Y", "Z"}
IsUppercase(c) == c \in UppercaseLetters

\* name.chars().next().map_or(false, |c| c.is_uppercase())
BeginsUppercase(name) == IF name = <<>> THEN FALSE ELSE IsUppercase(Head(name))

\* the guarded arm of the match in ComponentInsert::enter:
\* NodeKind::Env with header kind EnvNodeHeaderKind::Other(name) if name begins uppercase
IsComponentUsage(n) ==
    /\ n.kind = "Env"
    /\ n.header.kind.k = "Other"
    /\ BeginsUppercase(n.header.kind.name)

\* for (key, value) in attrs: the orders a HashMap may hand its entries out in
AttrOrders(attrs) ==
    { o \in [1..Cardinality(DOMAIN attrs) -> DOMAIN attrs] :
        \A i, j \in DOMAIN o : o[i] = o[j] => i = j }

\* how many entries the loop handles before value.ok_or(..)? returns: all of
\* them when every attribute has a value
ValuedPrefix(attrs, order) ==
    IF \A i \in DOMAIN order : attrs[order[i]] # <<>> THEN Len(order)
    ELSE (CHOOSE i \in DOMAIN order :
              /\ attrs[order[i]] = <<>>
              /\ \A j \in 1..(i - 1) : attrs[order[j]] # <<>>) - 1

ChildrenName == <<"c", "h", "i", "l", "d", "r", "e", "n">>

\* NodeKind::new_variable_definition in a node with the id given: <var name>value</var>
NewVariableDefinition(id, name, value) ==
    EnvNode(id, [kind |-> HKOther(VarName), attrs |-> AttrsInsert(EmptyAttrs, name, <<>>)],
            "Open", <<value>>, Inserted)

\* the loop over attrs: one definition for each entry, each with a new id
ParameterDefinitions(attrs, order, id) ==
    [i \in 1..Len(order) |-> NewVariableDefinition(id + i - 1, order[i], attrs[order[i]][1])]

\* a definition of `children` for every usage, the self-closing ones too
ChildrenDefinitionAlways(n, id) ==
    <<NewVariableDefinition(id, ChildrenName,
          EnvNode(n.id, [kind |-> HKFragment, attrs |-> EmptyAttrs], "Open", n.children,
                  n.position))>>

\* match component_children: the definition of `children` for an Open usage,
\* its value being Node { kind: NodeKind::new_fragment(component_children), ..node }
ChildrenDefinition(n, id) ==
    IF n.envkind = "Open"
    THEN <<NewVariableDefinition(id, ChildrenName,
               EnvNode(n.id, [kind |-> HKFragment, attrs |-> EmptyAttrs], "Open", n.children,
                       n.position))>>
    ELSE <<>>

\* how many ids ComponentInsert::enter draws for a usage it rewrites
InsertUses(n) ==
    Cardinality(DOMAIN n.header.attrs) + (IF n.envkind = "Open" THEN 1 ELSE 0) + 2

\* the Fragment that ComponentInsert::enter answers for a usage whose
\* attributes all have a value
ComponentInsertEnter(n, order, id) ==
    TFragment(id + InsertUses(n) - 1,
              ParameterDefinitions(n.header.attrs, order, id)
                  \o ChildrenDefinition(n, id + Len(order))
                  \o <<LeafNode(id + InsertUses(n) - 2, "VariableExpression",
                                n.header.kind.name, Inserted)>>)

\* enter of the ComponentInsert visitor is called
AtInsertEnter ==
    /\ AtEnter
    /\ visitors[vidx].inner = "ComponentInsert"
    /\ EnterDelegated(vidx, TopCall.node.id)

\* the guarded arm, value.ok_or(..) is Ok for every attribute: Ok(Action::replace(..))
InsertRewrite ==
    /\ AtInsertEnter
    /\ IsComponentUsage(TopCall.node)
    /\ \E order \in AttrOrders(TopCall.node.header.attrs) :
          /\ ValuedPrefix(TopCall.node.header.attrs, order) = Len(order)
          /\ EnterThen(Act("Replace", ComponentInsertEnter(TopCall.node, order, next_id)),
                       InsertUses(TopCall.node), scopes)

\* the guarded arm, value.ok_or(..)? returns the error for an attribute without
\* a value; the definitions before it have drawn their ids
InsertFails ==
    /\ AtInsertEnter
    /\ IsComponentUsage(TopCall.node)
    /\ \E order \in AttrOrders(TopCall.node.header.attrs) :
          /\ ValuedPrefix(TopCall.node.header.attrs, order) < Len(order)
          /\ next_id' = next_id + ValuedPrefix(TopCall.node.header.attrs, order)
    /\ log' = Append(log, Entered(TopCall, "Err"))
    /\ SetVisitorState(AfterEnterCall(vidx, TopCall.node.id, scopes))
    /\ calls' = <<>>
    /\ result' = [kind |-> "Unknown", node |-> NoNode]
    /\ tpc' = "done"
    /\ UNCHANGED <<pvars, given, transformers, max_passes, action, iterations, vidx, changes>>

\* _ => Ok(Action::keep(node))
InsertKeep ==
    /\ AtInsertEnter
    /\ ~IsComponentUsage(TopCall.node)
    /\ EnterThen(Act("Keep", TopCall.node), 0, scopes)

\* the steps of transform with ComponentInsert as its only visitor: the Fragment
\* that enter answers is Open and its children are kept, so the first pass
\* answers Keep and transform returns behind it
NextInsert ==
    \/ InsertRewrite
    \/ InsertFails
    \/ InsertKeep
    \/ Descend
    \/ LeaveOpen
    \/ RunVisitor
    \/ ReturnOk

\* a usage of the component R as the parser builds it
CUsage(id, attrs, children) ==
    EnvNode(id, [kind |-> HKOther(RawComponent), attrs |-> attrs], "Open", children, Inserted)
CUsageSelf(id, attrs) ==
    EnvNode(id, [kind |-> HKOther(RawComponent), attrs |-> attrs], "SelfClosing", <<>>, Inserted)

\* x="1", and x="1" y="1", and the attribute x without a value
OneParameter(id) == AttrsInsert(EmptyAttrs, X, <<VText(id, <<"1">>)>>)
TwoParameters(id) == AttrsInsert(OneParameter(id), Y, <<VText(id + 1, <<"1">>)>>)
BareParameter == AttrsInsert(EmptyAttrs, X, <<>>)
BareAndValued(id) == AttrsInsert(BareParameter, Y, <<VText(id, <<"1">>)>>)

\* <Eq></Eq>: a tag that begins uppercase with a header kind of its own
TEq(id, children) ==
    EnvNode(id, [kind |-> HKEq("Block"), attrs |-> DefaultAttrs(<<"E", "q">>)], "Open", children,
            Inserted)

UsageDocuments ==
    { \* usages with and without children, with no, one and two parameters
      TModule(0, <<CUsage(1, EmptyAttrs, <<VText(2, <<"1">>)>>), CUsageSelf(3, EmptyAttrs)>>),
      TModule(0, <<CUsage(1, OneParameter(2), <<>>), VText(3, <<"1">>)>>),
      TModule(0, <<CUsageSelf(1, TwoParameters(2)), TSelf(4)>>),
      TModule(0, <<CUsage(1, TwoParameters(2), <<VText(4, <<"1">>), TSelf(5)>>)>>),
      \* a usage among the children of a usage, and one inside another environment
      TModule(0, <<CUsage(1, EmptyAttrs, <<CUsageSelf(2, OneParameter(3))>>)>>),
      TModule(0, <<TEnv(1, <<CUsageSelf(2, EmptyAttrs), VRef(3, X)>>)>>),
      \* a usage as the root
      CUsage(0, OneParameter(1), <<VText(2, <<"1">>)>>),
      \* parameters without a value
      TModule(0, <<CUsageSelf(1, BareParameter)>>),
      TModule(0, <<VText(1, <<"1">>), CUsage(2, BareAndValued(3), <<VText(4, <<"1">>)>>)>>),
      \* tags that begin uppercase and are no Other(name), and no usage at all
      TModule(0, <<TEq(1, <<VText(2, <<"1">>)>>), CUsageSelf(3, EmptyAttrs)>>),
      TModule(0, <<TEnv(1, <<VText(2, <<"1">>)>>), TSelf(3), VDef(4, X, <<VText(5, <<"1">>)>>)>>) }

\* transform(node, [ComponentInsert], max_passes) is called
InitInsert ==
    /\ ParserIdle
    /\ document \in UsageDocuments
    /\ next_id = CounterBehind(document)
    /\ transformers = 1
    /\ max_passes \in 0..MaxPasses
    /\ visitors = <<Visitor(FALSE, "ComponentInsert")>>
    /\ visited = <<{}>>
    /\ delegated = <<>>
    /\ scopes = <<>>
    /\ issued = <<>>
    /\ threads = <<>>
    /\ action = Act("Replace", document)
    /\ iterations = 0
    /\ vidx = 1
    /\ calls = <<>>
    /\ log = <<>>
    /\ changes = 0
    /\ result = [kind |-> "-", node |-> NoNode]
    /\ tpc = "loop"

SpecInsert == InitInsert /\ [][NextInsert]_vars

-----------------------------------------------------------------------------
(* The Cleanup visitor (visitors/cleanup.rs)                               *)

\* is_empty_text: a Text without a character that is no whitespace
IsEmptyText(n) ==
    /\ n.kind = "Leaf"
    /\ n.leaf = "Text"
    /\ \A i \in 1..Len(n.value) : IsWhitespace(n.value[i])

\* children.front().map_or(false, is_empty_text)
FrontIsEmpty(children) == IF children = <<>> THEN FALSE ELSE IsEmptyText(Head(children))

\* children.back().map_or(false, is_empty_text)
BackIsEmpty(children) == IF children = <<>> THEN FALSE ELSE IsEmptyText(children[Len(children)])

\* if front_is_empty { children.pop_front(); }
PopFront(children, front_is_empty) == IF front_is_empty THEN Tail(children) ELSE children

\* a pop_back that is left out
PopBackNever(children, back_is_empty) == children

\* if back_is_empty { children.pop_back(); }: nothing is popped from an empty deque
PopBack(children, back_is_empty) ==
    IF back_is_empty /\ children # <<>> THEN SubSeq(children, 1, Len(children) - 1)
    ELSE children

\* the node that Cleanup::enter builds for an Open environment
CleanupNode(n) ==
    [n EXCEPT !.children =
        PopBack(PopFront(n.children, FrontIsEmpty(n.children)), BackIsEmpty(n.children))]

\* if !back_is_empty && !front_is_empty { Action::keep(node) } else { Action::replace(node) }
CleanupEnter(n) ==
    IF ~BackIsEmpty(n.children) /\ ~FrontIsEmpty(n.children) THEN Act("Keep", CleanupNode(n))
    ELSE Act("Replace", CleanupNode(n))

\* enter of the Cleanup visitor is called
AtCleanupEnter ==
    /\ AtEnter
    /\ visitors[vidx].inner = "Cleanup"
    /\ EnterDelegated(vidx, TopCall.node.id)

\* NodeKind::Env(EnvNode { kind: EnvNodeKind::Open(mut children), header })
CleanupOpen ==
    /\ AtCleanupEnter
    /\ IsOpen(TopCall.node)
    /\ EnterThen(CleanupEnter(TopCall.node), 0, scopes)

\* _ => Ok(Action::keep(node))
CleanupKeep ==
    /\ AtCleanupEnter
    /\ ~IsOpen(TopCall.node)
    /\ EnterThen(Act("Keep", TopCall.node), 0, scopes)

\* the steps of transform with Cleanup as its only visitor: no child of an
\* Open environment answers Replace or Remove once its own children are done,
\* so the first pass answers Keep and transform returns behind it
NextCleanup ==
    \/ CleanupOpen
    \/ CleanupKeep
    \/ Descend
    \/ LeaveOpen
    \/ RunVisitor
    \/ ReturnOk

\* texts of whitespace only, the empty text among them
Blank(id) == VText(id, <<" ">>)
BlankLine(id) == VText(id, <<" ", NL>>)
BlankNbsp(id) == VText(id, <<NBSP>>)
NoText(id) == VText(id, <<>>)
Padded(id) == VText(id, <<" ", "x", " ">>)

BlankDocuments ==
    { \* whitespace at both ends of the module and of an environment
      TModule(0, <<Blank(1), TEnv(2, <<BlankLine(3), TText(4), Blank(5)>>), BlankLine(6)>>),
      \* whitespace at one end only
      TModule(0, <<TText(1), TEnv(2, <<TText(3), Blank(4)>>)>>),
      TModule(0, <<TEnv(1, <<BlankLine(2), TText(3)>>), TSelf(4)>>),
      \* one, two and three children, all of whitespace
      TModule(0, <<TEnv(1, <<Blank(2)>>)>>),
      TModule(0, <<TEnv(1, <<Blank(2), BlankLine(3)>>), TText(4)>>),
      TModule(0, <<TEnv(1, <<Blank(2), Blank(3), BlankLine(4)>>), TText(5)>>),
      \* whitespace between other children, and around the text inside a Text
      TModule(0, <<TText(1), Blank(2), TEnv(3, <<Padded(4)>>)>>),
      \* an empty text, a no-break space
      TModule(0, <<NoText(1), TText(2), BlankNbsp(3)>>),
      \* environments inside environments, an environment without children
      TModule(0, <<TEnv(1, <<TEnv(2, <<Blank(3)>>), Blank(4)>>), TEnv(5, <<>>)>>),
      \* a self-closing environment and leaves at the ends
      TModule(0, <<TSelf(1), Blank(2), VRef(3, X)>>),
      \* an environment as the root
      TEnv(0, <<BlankLine(1), TText(2)>>) }

\* transform(node, [Cleanup], max_passes) is called
InitCleanup ==
    /\ ParserIdle
    /\ document \in BlankDocuments
    /\ next_id = CounterBehind(document)
    /\ transformers = 1
    /\ max_passes \in 0..MaxPasses
    /\ visitors = <<Visitor(FALSE, "Cleanup")>>
    /\ visited = <<{}>>
    /\ delegated = <<>>
    /\ scopes = <<>>
    /\ issued = <<>>
    /\ threads = <<>>
    /\ action = Act("Replace", document)
    /\ iterations = 0
    /\ vidx = 1
    /\ calls = <<>>
    /\ log = <<>>
    /\ changes = 0
    /\ result = [kind |-> "-", node |-> NoNode]
    /\ tpc = "loop"

SpecCleanup == InitCleanup /\ [][NextCleanup]_vars

-----------------------------------------------------------------------------
(* Node::generate_id called from several threads (document.rs)             *)

\* how many threads call Node::generate_id
MaxThreads == 3

\* how many calls of Node::generate_id are made in all
MaxIssued == 5

\* a thread: where it is, the id its fetch_add gave it, the ids its calls returned
Thread(at, id, got) == [pc |-> at, id |-> id, got |-> got]

\* the counter is read and left as it is
FetchAddForgets(counter, val) == [previous |-> counter, counter |-> counter]

\* AtomicUsize::fetch_add(val, Ordering::Relaxed): one read-modify-write on the
\* counter, which gives back the value before it (no value of the model comes
\* near usize::MAX, where fetch_add wraps around)
FetchAdd(counter, val) == [previous |-> counter, counter |-> counter + val]

\* the calls of generate_id begun so far
Begun == Len(issued) + Cardinality({t \in DOMAIN threads : threads[t].pc = "generate_id"})

\* what the threads leave alone
beside == <<pvars, transformers, max_passes, action, iterations, vidx, calls, log, changes,
            result, tpc, document, visitors, visited, delegated, scopes>>

\* a thread calls Node::generate_id()
GenerateIdCall(t) ==
    /\ threads[t].pc = "idle"
    /\ Begun < MaxIssued
    /\ threads' = [threads EXCEPT ![t] = Thread("generate_id", @.id, @.got)]
    /\ UNCHANGED <<beside, next_id, issued>>

\* NODE_ID_COUNTER.fetch_add(1, Ordering::Relaxed)
GenerateIdFetchAdd(t) ==
    /\ threads[t].pc = "generate_id"
    /\ next_id' = FetchAdd(next_id, 1).counter
    /\ issued' = Append(issued, [thread |-> t, id |-> FetchAdd(next_id, 1).previous])
    /\ threads' = [threads EXCEPT ![t] = Thread("return", FetchAdd(next_id, 1).previous, @.got)]
    /\ UNCHANGED beside

\* generate_id returns the id to the thread
GenerateIdReturn(t) ==
    /\ threads[t].pc = "return"
    /\ threads' = [threads EXCEPT ![t] = Thread("idle", @.id, Append(@.got, @.id))]
    /\ UNCHANGED <<beside, next_id, issued>>

NextIds ==
    \/ \E t \in DOMAIN threads : GenerateIdCall(t)
    \/ \E t \in DOMAIN threads : GenerateIdFetchAdd(t)
    \/ \E t \in DOMAIN threads : GenerateIdReturn(t)

\* the process has started, the threads are about to build nodes
InitIds ==
    /\ ParserIdle
    /\ next_id = 0
    /\ transformers = 0
    /\ max_passes = 0
    /\ action = [kind |-> "Keep", node |-> NoNode]
    /\ iterations = 0
    /\ vidx = 1
    /\ calls = <<>>
    /\ log = <<>>
    /\ changes = 0
    /\ result = [kind |-> "-", node |-> NoNode]
    /\ tpc = "idle"
    /\ document = NoNode
    /\ visitors = <<>>
    /\ visited = <<>>
    /\ delegated = <<>>
    /\ scopes = <<>>
    /\ issued = <<>>
    /\ threads = [t \in 1..MaxThreads |-> Thread("idle", 0, <<>>)]

SpecIds == InitIds /\ [][NextIds]_vars

-----------------------------------------------------------------------------
(* Properties of the engine                                                *)

\* what the innermost activation hands to its caller in this step
Returned == IF Len(calls) = 1 THEN action' ELSE calls'[Len(calls')].done[Len(calls'[Len(calls')].done)]

\* the innermost activation returns in this step
Returns ==
    /\ tpc = "descent"
    /\ IF Len(calls) = 1 THEN tpc' = "loop"
       ELSE /\ Len(calls') = Len(calls) - 1
            /\ Len(calls'[Len(calls')].done) = Len(calls[Len(calls')].done) + 1

\* enter answers Remove in this step
EnterAnswersRemove ==
    /\ AtEnter
    /\ Len(log') = Len(log) + 1
    /\ log'[Len(log')].op = "enter"
    /\ log'[Len(log')].kind = "Remove"

\* in the calls logged, a node for which enter answered Remove is not left, and
\* no node below it is entered
NothingBelowRemoved(l) ==
    \A i \in 1..Len(l) :
        (l[i].op = "enter" /\ l[i].kind = "Remove") =>
            \A j \in 1..Len(l) :
                /\ ~(l[j].op = "leave" /\ l[j].id = l[i].id)
                /\ ~(l[j].op = "enter" /\ l[j].id \in l[i].below)
                /\ ~(l[j].op = "enter" /\ l[j].parent = <<l[i].id>>)

\* C7: single-pass descent, Remove: when enter answers Remove for a node,
\* transform_node_single_pass returns Remove at once; enter is not called for
\* any descendant of the node in this descent and leave is not called for the
\* node.
C7_RemoveReturnsAtOnce ==
    [][/\ EnterAnswersRemove => (Returns /\ Returned = Act("Remove", TopCall.node))
       /\ NothingBelowRemoved(log')]_vars

\* a descent is over in which enter answered Remove for a node that has children
C7_Witness ==
    /\ tpc = "loop"
    /\ \E i \in 1..Len(log) :
          log[i].op = "enter" /\ log[i].kind = "Remove" /\ log[i].below # {}

\* a child of the activation was replaced or removed
SomeChildChanged(c) == \E i \in 1..Len(c.done) : c.done[i].kind # "Keep"

\* enter has answered, and the activation returns in this step: a leaf or a
\* self-closing environment right after enter, an Open environment after its
\* children
ReturnsAfterEnter ==
    /\ Returns
    /\ \/ TopCall.phase = "children"
       \/ TopCall.phase = "enter" /\ Len(log') = Len(log) + 2

\* the answer of enter for the node of the returning activation
EnterAnswer == IF TopCall.phase = "children" THEN TopCall.enter_kind ELSE log'[Len(log) + 1].kind

\* C8: single-pass descent, change reporting: transform_node_single_pass
\* returns Replace if enter answered Replace for the node or a descendant was
\* replaced or removed, and Keep otherwise, for leaves, self-closing and Open
\* environments alike.
C8_ReplaceIffChanged ==
    [][ReturnsAfterEnter =>
          Returned.kind = (IF EnterAnswer = "Replace" \/ SomeChildChanged(TopCall)
                           THEN "Replace" ELSE "Keep")]_vars

\* the for loop is at a visitor, the tree not removed
AtVisitor == tpc = "loop" /\ vidx <= transformers

\* what holds of every step of the driver whatever ends a pass: the visitors get
\* the tree in list order, each the tree its predecessor left, and transform
\* returns Ok exactly behind a pass whose last visitor answered Keep
DriverOrder ==
    /\ (tpc = "loop" /\ tpc' = "descent") =>
          /\ vidx' = vidx /\ vidx <= transformers
          /\ calls' = <<Call(action.node, <<>>)>>
    /\ (tpc = "descent" /\ tpc' = "loop") => (vidx' = vidx + 1 /\ iterations' = iterations)
    /\ tpc = "descent" => \A i \in 1..Len(log') : log'[i].visitor = vidx
    /\ (AtPassEnd /\ action.kind = "Keep") =>
          (tpc' = "done" /\ result' = [kind |-> "Ok", node |-> action.node])
    /\ (tpc' = "done" /\ result'.kind = "Ok") => (AtPassEnd /\ action.kind = "Keep")

C10_RootRemoveIsFatal ==
    (tpc = "done" /\ action.kind = "Remove") => result.kind = "RootRemoved"

\* the last visitor of the list has run through the tree, and the tree it hands
\* back is not the tree it was handed
LastVisitorChangedTree ==
    /\ AtPassEnd
    /\ log # <<>>
    /\ \/ action.kind = "Remove"
       \/ action.node.id # log[1].id
       \/ IdsOf(action.node.children) # log[1].below

\* the last visitor of the list has run through the tree and answered Keep for
\* every node
StablePass ==
    /\ AtPassEnd
    /\ log # <<>>
    /\ \A i \in 1..Len(log) : log[i].op = "enter" => log[i].kind = "Keep"

\* C11: pass bound: with max_passes = 0, any visitor list whose last visitor
\* changes the tree in the first pass makes transform return
\* MaxIterationsReached; and if the visitors reach a stable pass after exactly
\* k passes, transform called with max_passes = k returns Ok.
C11_PassBound ==
    [][/\ (LastVisitorChangedTree /\ iterations = 0 /\ max_passes = 0) =>
             (tpc' = "done" /\ result'.kind = "MaxIterationsReached")
       /\ (StablePass /\ iterations = max_passes) =>
             (tpc' = "done" /\ result'.kind = "Ok")]_vars

\* C12: transform idempotence: for a visitor whose enter always returns Keep,
\* transform with max_passes >= 1 returns Ok after exactly one pass, and the
\* returned tree has the same node ids, kinds, attributes and child order as
\* the input.
C12_KeepOnlyIsIdentity ==
    (/\ tpc = "done"
     /\ transformers >= 1
     /\ max_passes >= 1
     /\ changes = 0
     /\ result.kind # "Unknown") =>
        /\ result = [kind |-> "Ok", node |-> document]
        /\ iterations = 0
        /\ vidx = transformers + 1

\* two visitors that kept every node of a tree with grandchildren have run, and
\* transform has returned
C12_Witness ==
    /\ tpc = "done"
    /\ transformers = 2
    /\ max_passes = 1
    /\ changes = 0
    /\ result.kind = "Ok"
    /\ \E i \in 1..Len(document.children) : document.children[i].children # <<>>

\* enter answers an error in this step
EnterFails ==
    /\ AtEnter
    /\ Len(log') = Len(log) + 1
    /\ log'[Len(log')].kind = "Err"

\* C13: when a visitor's enter returns an error for some node, transform
\* returns that error immediately: after the failing enter no further enter or
\* leave of any visitor is called (not for later siblings, not leave for the
\* ancestors, not later visitors or passes), and no tree is returned.
C13_ErrorAbortsTransform ==
    [][/\ EnterFails =>
             /\ tpc' = "done"
             /\ result' = [kind |-> "Unknown", node |-> NoNode]
             /\ \A i \in 1..Len(calls) : \A j \in 1..Len(log') :
                   ~(log'[j].op = "leave" /\ log'[j].id = calls[i].original_id)
       /\ tpc = "done" => UNCHANGED vars]_vars

\* the first of two visitors failed at a node below the root that has a later
\* sibling
C13_Witness ==
    /\ tpc = "done"
    /\ result.kind = "Unknown"
    /\ transformers = 2
    /\ vidx = 1
    /\ Len(document.children) = 2
    /\ log # <<>>
    /\ log[Len(log)].kind = "Err"
    /\ log[Len(log)].parent = <<document.id>>
    /\ log[Len(log)].id = document.children[1].id

-----------------------------------------------------------------------------
(* Properties of TransformerOnce                                           *)

\* the calls a TransformerOnce hands on in this step
NewlyDelegated == SubSeq(delegated', Len(delegated) + 1, Len(delegated'))

\* C14: TransformerOnce: the wrapped visitor's enter is never called with a
\* node whose id is in the processed set (enter returns Keep with the node
\* unchanged instead), and the wrapped visitor's leave is called at most once
\* per original id over all passes of a transform call.
C14_OnceEnterOnceLeave ==
    [][/\ \A k \in 1..Len(NewlyDelegated) :
             NewlyDelegated[k].op = "enter" =>
                 /\ NewlyDelegated[k].visitor = vidx
                 /\ NewlyDelegated[k].id \notin visited[vidx]
       /\ (AtEnter /\ TopCall.node.id \in visited[vidx]) =>
             /\ \A k \in 1..Len(NewlyDelegated) : NewlyDelegated[k].op # "enter"
             /\ log'[Len(log) + 1].kind = "Keep"
             /\ IF IsOpen(TopCall.node)
                THEN calls'[Len(calls)].node = TopCall.node
                ELSE Returns /\ Returned = Act("Keep", TopCall.node)
       /\ \A k \in (Len(delegated) + 1)..Len(delegated') :
             delegated'[k].op = "leave" =>
                \A j \in 1..(k - 1) : delegated'[j] # delegated'[k]]_vars

\* the second pass of a single wrapped visitor is over: the root, processed in
\* the first pass, was entered again, and the wrapped visitor saw it once
C14_Witness ==
    /\ tpc = "done"
    /\ transformers = 1
    /\ iterations = 1
    /\ result.kind = "Ok"
    /\ log # <<>>
    /\ log[1].id = document.id
    /\ document.id \in visited[1]
    /\ Cardinality({ k \in 1..Len(delegated) : delegated[k].id = document.id }) = 2

\* the nodes the wrapped visitor has entered in the current descent and that
\* it was not handed to leave since: every one is outside the processed set,
\* and so is every node for which enter answered Remove or an error
EnteredOnlyOutside(l, vis) ==
    \A i \in 1..Len(l) :
        (/\ l[i].op = "enter"
         /\ l[i].inner
         /\ \/ l[i].kind \in {"Remove", "Err"}
            \/ \A j \in (i + 1)..Len(l) : ~(l[j].op = "leave" /\ l[j].id = l[i].id)) =>
            l[i].id \notin vis[l[i].visitor]

\* the activation calls leave in this step: its children are all done, or it
\* is none of an Open environment and enter did not answer Remove or an error
LeaveStep ==
    /\ tpc = "descent"
    /\ \/ TopCall.phase = "children" /\ TopCall.todo = <<>>
       \/ /\ TopCall.phase = "enter"
          /\ Len(log') = Len(log) + 2
          /\ log'[Len(log) + 1].kind \in {"Keep", "Replace"}
    /\ log'[Len(log')].op = "leave"

-----------------------------------------------------------------------------
(* Properties of the Variables visitor                                     *)

RECURSIVE NodeCount(_)
\* the number of nodes in a list of trees, attribute values included
NodeCount(nodes) ==
    IF nodes = <<>> THEN 0
    ELSE LET n == Head(nodes)
             keys == DOMAIN n.header.attrs
         IN  1 + NodeCount(n.children)
               + Cardinality({ k \in keys : n.header.attrs[k] # <<>> })
               + NodeCount(Tail(nodes))

\* every node of the tree carries an id drawn in this step, and no two the same
\* one: ids never issued before, found in no processed set
FreshIdentity(n) ==
    /\ AllIds(<<n>>) \subseteq next_id..(next_id' - 1)
    /\ Cardinality(AllIds(<<n>>)) = NodeCount(<<n>>)
    /\ \A v \in DOMAIN visited : AllIds(<<n>>) \cap (visited[v] \cup visited'[v]) = {}

\* enter of the Variables visitor is called for a variable reference
VariableEntered == AtVariablesEnter /\ IsVariableExpression(TopCall.node)

\* enter of the Variables visitor is called for a definition and defines it
VariableDefined ==
    /\ AtVariablesEnter
    /\ IsVarDefinition(TopCall.node)
    /\ scopes' # scopes

\* the node the activation goes on with behind enter
Spliced == IF tpc' = "descent" /\ Len(calls') = Len(calls)
           THEN calls'[Len(calls)].node ELSE Returned.node

\* C16: cloning a node always yields fresh identity: the clone and every
\* descendant of the clone carry ids that were never issued before, so a cloned
\* value spliced into the tree is never found in a TransformerOnce processed
\* set, even when its content is identical to an already-processed node.
C16_CloneIsFresh ==
    [][/\ (VariableEntered /\ tpc' # "done") => FreshIdentity(Spliced)
       /\ VariableDefined =>
             FreshIdentity(scopes'[Len(scopes')].values[FirstKey(TopCall.node.header.attrs)])]_vars

\* the first pass of a wrapped Variables visitor is over: the tree holds a
\* processed node and, behind it, a spliced copy of a value of the same content
\* that is not in the processed set
C16_Witness ==
    /\ AtPassEnd
    /\ iterations = 0
    /\ visitors[1].once
    /\ \E i, j \in 1..Len(action.node.children) :
          /\ i < j
          /\ action.node.children[i].id \in visited[1]
          /\ action.node.children[j].id \notin visited[1]
          /\ [action.node.children[i] EXCEPT !.id = 0] = [action.node.children[j] EXCEPT !.id = 0]

\* the ids of the nodes whose children are being visited
OpenIds == { calls[i].node.id : i \in { k \in 1..Len(calls) : calls[k].phase = "children" } }

\* C18: scope shadowing: a variable defined by a `var` node inside a nested
\* environment E is resolvable by variable references visited later inside E,
\* and is unresolvable from the moment leave has been called for E, so
\* environments and references that are later siblings of E cannot resolve it;
\* this holds also when E's subtree contains variable references whose
\* replacement values themselves contain `var` definitions.
C18_ScopeEndsAtLeave ==
    /\ \A i \in 1..Len(calls) : \A j \in 1..Len(calls[i].done) :
          (calls[i].done[j].kind = "Remove" /\ IsVarDefinition(calls[i].done[j].node)) =>
              Resolve(scopes, FirstKey(calls[i].done[j].node.header.attrs)) # <<>>
    /\ result.kind \notin {"Unknown", "panic"} =>
          \A k \in 1..Len(scopes) : scopes[k].node_id \in OpenIds

\* the value bound to name in the innermost scope that binds it
InnermostBinding(scps, name) ==
    LET binding == { k \in 1..Len(scps) : name \in DOMAIN scps[k].values }
    IN  IF binding = {} THEN <<>>
        ELSE <<scps[CHOOSE k \in binding : \A l \in binding : l <= k].values[name]>>

RECURSIVE Content(_)
\* a list of trees without the ids
Content(nodes) ==
    IF nodes = <<>> THEN <<>>
    ELSE LET n == Head(nodes)
         IN  <<[n EXCEPT !.id = 0,
                         !.children = Content(@),
                         !.header.attrs = [k \in DOMAIN @ |-> Content(@[k])]]>>
             \o Content(Tail(nodes))

\* C19: variable resolution: a VariableExpression(name) is replaced by a copy
\* of the value bound to name in the innermost scope on the stack that binds
\* name (inner bindings shadow outer ones); if no scope on the stack binds
\* name, enter returns an error and the transform fails.
C19_InnermostBindingWins ==
    [][VariableEntered =>
          IF InnermostBinding(scopes, TopCall.node.value) = <<>>
          THEN tpc' = "done" /\ result' = [kind |-> "Unknown", node |-> NoNode]
          ELSE /\ log'[Len(log) + 1].kind = "Replace"
               /\ Content(<<Spliced>>) = Content(InnermostBinding(scopes, TopCall.node.value))]_vars

\* transform has returned a tree in which a reference inside an environment
\* was replaced by the value defined there, and a reference behind it by the
\* value of the enclosing definition
C19_Witness ==
    /\ tpc = "done"
    /\ result.kind = "Ok"
    /\ Len(result.node.children) = 2
    /\ result.node.children[1].children # <<>>
    /\ result.node.children[1].children[1].value = <<"2">>
    /\ result.node.children[2].value = <<"1">>

-----------------------------------------------------------------------------
(* Properties of Node::generate_id                                         *)

\* the ids the calls of a thread returned, and the one it is about to return
Held(t) == IF threads[t].pc = "return" THEN Append(threads[t].got, threads[t].id)
           ELSE threads[t].got

\* C17: Node::generate_id never gives the same id twice, to one thread or to
\* two, and the ids grow in the order of the fetch_adds on NODE_ID_COUNTER
\* (and so in the order of the calls of any one thread), however the calls of
\* the threads are interleaved
C17_IdsUniqueAndIncreasing ==
    /\ \A i, j \in 1..Len(issued) : i < j => issued[i].id < issued[j].id
    /\ \A t \in DOMAIN threads :
          \A i, j \in 1..Len(Held(t)) : i < j => Held(t)[i] < Held(t)[j]
    /\ \A t, u \in DOMAIN threads :
          \A i \in 1..Len(Held(t)) : \A j \in 1..Len(Held(u)) :
             Held(t)[i] = Held(u)[j] => t = u /\ i = j

\* two threads are inside generate_id at once, each with an id of its own, after
\* a third thread has been given ids before and between theirs
C17_Witness ==
    \E t, u, w \in DOMAIN threads :
       /\ t # u /\ u # w /\ t # w
       /\ threads[t].pc = "return" /\ threads[u].pc = "return"
       /\ Len(threads[t].got) >= 1
       /\ Len(threads[w].got) >= 1
       /\ threads[t].got[1] < threads[w].got[1]
       /\ threads[w].got[1] < threads[u].id

-----------------------------------------------------------------------------
(* Properties of the dynamic parse modes                                   *)

\* the header declares the component `name` with content="raw"
DeclaresRaw(header, name) ==
    /\ header.kind = HKComponentDefinition
    /\ name \in DOMAIN header.attrs
    /\ header.attrs[name] = <<>>
    /\ ContentKey \in DOMAIN header.attrs
    /\ header.attrs[ContentKey] # <<>>
    /\ header.attrs[ContentKey][1].value = <<"r", "a", "w">>

RECURSIVE DeclaredIn(_, _)
\* one of the nodes, or a node below one, declares `name` with content="raw"
DeclaredIn(nodes, name) ==
    IF nodes = <<>> THEN FALSE
    ELSE IF Head(nodes).kind = "Env" /\ DeclaresRaw(Head(nodes).header, name) THEN TRUE
    ELSE IF DeclaredIn(Head(nodes).children, name) THEN TRUE
    ELSE DeclaredIn(Tail(nodes), name)

\* a declaration of `name` with content="raw" has been parsed, header and all
DeclaredRaw(name) ==
    \E i \in 1..Len(stack) :
       IF DeclaresRaw(stack[i].header, name) THEN TRUE ELSE DeclaredIn(stack[i].children, name)

\* C20: once a component has been declared with content="raw", the body of
\* every usage of its tag is parsed in raw mode; the source that declares the
\* component and then uses it with an unclosed tag and a `$` in the body gives
\* the declaration and a usage that holds the body as one Text, with no
\* diagnostic
C20_RawComponentIsOpaque ==
    /\ ( /\ pc = "env_body"
         /\ hdr.header.kind.k = "Other"
         /\ hdr.stop_kind = TK("RightAngle")
         /\ DeclaredRaw(hdr.header.kind.name) )
       => HdrArm = "raw"
    /\ ( /\ pc = "done"
         /\ src = Declaration(<<"r", "a", "w">>) \o CloseTag(ComponentTag) \o Usage )
       => /\ errors = <<>>
          /\ Len(root.children) = 2
          /\ Len(root.children[2].children) = 1
          /\ root.children[2].children[1].leaf = "Text"
          /\ root.children[2].children[1].value = UsageBody

\* the header declares the component `name` without a content, or with
\* content="vtx"
DeclaresStructured(header, name) ==
    /\ header.kind = HKComponentDefinition
    /\ name \in DOMAIN header.attrs
    /\ header.attrs[name] = <<>>
    /\ IF ContentKey \in DOMAIN header.attrs
       THEN /\ header.attrs[ContentKey] # <<>>
            /\ header.attrs[ContentKey][1].value = <<"v", "t", "x">>
       ELSE TRUE

RECURSIVE DeclaredStructuredIn(_, _)
\* one of the nodes, or a node below one, declares `name` as structured
DeclaredStructuredIn(nodes, name) ==
    IF nodes = <<>> THEN FALSE
    ELSE IF Head(nodes).kind = "Env" /\ DeclaresStructured(Head(nodes).header, name) THEN TRUE
    ELSE IF DeclaredStructuredIn(Head(nodes).children, name) THEN TRUE
    ELSE DeclaredStructuredIn(Tail(nodes), name)

\* a declaration of `name` as structured has been parsed, header and all
DeclaredStructured(name) ==
    \E i \in 1..Len(stack) :
       IF DeclaresStructured(stack[i].header, name) THEN TRUE
       ELSE DeclaredStructuredIn(stack[i].children, name)

\* the sources that declare R as structured and use it at once
StructuredUsages == { PlainDeclaration \o Usage, Declaration(<<"v", "t", "x">>) \o Usage }

\* C21: once a component has been declared without a content attribute, or
\* with content="vtx", the body of a usage of its tag is parsed with
\* parse_children; the tag that never closes in the body of the usage becomes an
\* environment of its own, and a diagnostic is recorded
C21_StructuredComponent ==
    /\ ( /\ pc = "env_body"
         /\ hdr.header.kind.k = "Other"
         /\ hdr.stop_kind = TK("RightAngle")
         /\ DeclaredStructured(hdr.header.kind.name) )
       => HdrArm = "children"
    /\ ( pc = "done" /\ src \in StructuredUsages )
       => /\ errors # <<>>
          /\ Len(root.children) = 1
          /\ Len(root.children[1].children) = 1
          /\ root.children[1].children[1].header.kind = HKOther(RawComponent)
          /\ root.children[1].children[1].children # <<>>
          /\ root.children[1].children[1].children[1].kind = "Env"
          /\ root.children[1].children[1].children[1].header.kind = HKOther(<<"a">>)

\* the source that declares R without a content and uses it has been parsed
C21_Witness ==
    /\ pc = "done"
    /\ src = PlainDeclaration \o Usage
    /\ \E i \in 1..Len(errors) : errors[i].kind.error = "UnexpectedEof"

\* the header declares the component `name`, whatever its content
Declares(header, name) ==
    /\ header.kind = HKComponentDefinition
    /\ name \in DOMAIN header.attrs
    /\ header.attrs[name] = <<>>

RECURSIVE DeclaredIn0(_, _)
\* one of the nodes, or a node below one, declares `name`
DeclaredIn0(nodes, name) ==
    IF nodes = <<>> THEN FALSE
    ELSE IF Head(nodes).kind = "Env" /\ Declares(Head(nodes).header, name) THEN TRUE
    ELSE IF DeclaredIn0(Head(nodes).children, name) THEN TRUE
    ELSE DeclaredIn0(Tail(nodes), name)

\* a declaration of `name` has been parsed, header and all
Declared(name) ==
    \E i \in 1..Len(stack) :
       IF Declares(stack[i].header, name) THEN TRUE ELSE DeclaredIn0(stack[i].children, name)

\* this step ends the header of a declaration that has a name and a content
\* that is a mode (or none)
DeclarationParsed ==
    /\ pc # "env_body"
    /\ pc' = "env_body"
    /\ hdr'.header.kind = HKComponentDefinition
    /\ ComponentNameDefinitionAttrs(hdr'.header.attrs) # <<>>
    /\ EnvParseAttrsFromAttrs(hdr'.header.attrs).ok

\* C22: the body of an environment is parsed in the mode the registry holds
\* for its header kind when the header has just been parsed; a usage of a tag
\* no declaration of which has been parsed yet is parsed with parse_children;
\* and the registry changes only in a step that ends the header of a
\* ComponentDefinition with a name and a valid content
C22_ModeAtHeader ==
    [][/\ dynamic_state' # dynamic_state => DeclarationParsed
       /\ (pc = "env_body" /\ hdr.stop_kind = TK("RightAngle")) =>
             IF ContentMode(dynamic_state, hdr.header.kind) = "Vtx"
             THEN /\ pc' = "children"
                  /\ Len(stack') = Len(stack) + 1
                  /\ stack'[Len(stack')].header = hdr.header
                  /\ cursor' = cursor
             ELSE Len(stack') = Len(stack)
       /\ ( /\ pc = "env_body"
            /\ hdr.stop_kind = TK("RightAngle")
            /\ hdr.header.kind.k = "Other"
            /\ ~Declared(hdr.header.kind.name) ) =>
             /\ pc' = "children"
             /\ Len(stack') = Len(stack) + 1]_vars

\* the usage came first and was parsed as environments, the declaration after
\* it (behind the inline equation that the `$` of a second usage ends) has been
\* registered
C22_Witness ==
    /\ pc = "done"
    /\ src = Usage \o Usage \o Declaration(<<"r", "a", "w">>)
    /\ HKOther(RawComponent) \in DOMAIN dynamic_state
    /\ root.children[1].header.kind = HKOther(RawComponent)
    /\ root.children[1].children[1].kind = "Env"

-----------------------------------------------------------------------------
(* Properties of headings                                                  *)

RECURSIVE DropBytes(_, _)
\* the source from byte n on
DropBytes(s, n) ==
    IF n <= 0 \/ s = <<>> THEN s ELSE DropBytes(Tail(s), n - LenUtf8(Head(s)))

\* C23: a heading opener of n `#` and a space gives a Heading whose level is
\* n, the children of which are parsed up to the end of the line: every open
\* activation that builds a Heading seeks the end of the line and has the level
\* that is the length of the run of `#` at the position of the opener
C23_HeadingLevelIsRunLength ==
    \A i \in 1..Len(stack) :
        stack[i].wrap = "Heading" =>
            /\ stack[i].closing = TK("EndOfLine")
            /\ stack[i].header.kind.level
                   = CountWhile(DropBytes(src, stack[i].position.byte_idx), "hash")

-----------------------------------------------------------------------------
(* Properties of ComponentInsert                                           *)

\* what the call of enter taken in this step answered: the error leaves
\* transform, an Open node is descended into, any other answer is handed back
AnswerOfEnter ==
    IF tpc' = "done" THEN Act("Err", NoNode)
    ELSE IF Len(calls') = Len(calls) THEN Act(calls'[Len(calls)].enter_kind, calls'[Len(calls)].node)
    ELSE IF Len(calls) = 1 THEN action'
    ELSE calls'[Len(calls) - 1].done[Len(calls'[Len(calls) - 1].done)]

\* <var key>value</var> with an Inserted position
IsBinding(b, key, value) ==
    /\ b.kind = "Env"
    /\ b.envkind = "Open"
    /\ b.header.kind = HKOther(VarName)
    /\ DOMAIN b.header.attrs = {key}
    /\ b.header.attrs[key] = <<>>
    /\ b.children = <<value>>
    /\ b.position = Inserted

\* a Fragment that holds the children given
IsFragmentOf(f, children) ==
    /\ f.kind = "Env"
    /\ f.envkind = "Open"
    /\ f.header.kind = HKFragment
    /\ f.children = children

\* f is what the usage n is to be rewritten into, no id below `fresh` being new
IsRewriteOf(f, n, fresh) ==
    /\ f.kind = "Env" /\ f.envkind = "Open" /\ f.header.kind = HKFragment
    /\ f.id >= fresh
    /\ f.position = Inserted
    /\ Len(f.children) =
           Cardinality(DOMAIN n.header.attrs) + (IF n.envkind = "Open" THEN 1 ELSE 0) + 1
    /\ \A k \in DOMAIN n.header.attrs :
           /\ n.header.attrs[k] # <<>>
           /\ \E i \in 1..Cardinality(DOMAIN n.header.attrs) :
                  IsBinding(f.children[i], k, n.header.attrs[k][1])
    /\ n.envkind = "Open" =>
           /\ f.children[Len(f.children) - 1].kind = "Env"
           /\ f.children[Len(f.children) - 1].children # <<>>
           /\ IsBinding(f.children[Len(f.children) - 1], ChildrenName,
                        f.children[Len(f.children) - 1].children[1])
           /\ IsFragmentOf(f.children[Len(f.children) - 1].children[1], n.children)
    /\ f.children[Len(f.children)] =
           LeafNode(f.children[Len(f.children)].id, "VariableExpression", GetName(n.header.kind),
                    Inserted)

\* an environment whose tag name begins with an uppercase letter
UppercaseTag(n) == n.kind = "Env" /\ BeginsUppercase(GetName(n.header.kind))

\* C24 as stated: ComponentInsert rewrites every environment whose tag name
\* begins with an uppercase letter into a Fragment with a fresh id and an
\* Inserted position that holds one var binding for each attribute, then for an
\* Open usage a binding of `children` to a Fragment of the original children,
\* and last the VariableExpression of the name; every other node is kept as it is
C24_EveryUppercaseTagRewritten ==
    [][AtInsertEnter =>
           IF UppercaseTag(TopCall.node)
           THEN /\ AnswerOfEnter.kind = "Replace"
                /\ IsRewriteOf(AnswerOfEnter.node, TopCall.node, next_id)
           ELSE AnswerOfEnter = Act("Keep", TopCall.node)]_vars

\* every attribute of the usage has a value
AllValued(n) == \A k \in DOMAIN n.header.attrs : n.header.attrs[k] # <<>>

\* C24 amended: the environments rewritten are those whose header kind is
\* Other(name) with a name that begins uppercase and whose attributes all have a
\* value: the answer is the Fragment described, the Fragment bound to `children`
\* keeping the id and the position of the usage; for such an environment with
\* an attribute that has no value enter answers an error; every other node, Eq
\* and Code environments among them, is kept as it is
C24_UsagesRewritten ==
    [][AtInsertEnter =>
           IF IsComponentUsage(TopCall.node)
           THEN IF AllValued(TopCall.node)
                THEN /\ AnswerOfEnter.kind = "Replace"
                     /\ IsRewriteOf(AnswerOfEnter.node, TopCall.node, next_id)
                     /\ TopCall.node.envkind = "Open" =>
                           /\ AnswerOfEnter.node.children[Len(AnswerOfEnter.node.children) - 1]
                                  .children[1].id = TopCall.node.id
                           /\ AnswerOfEnter.node.children[Len(AnswerOfEnter.node.children) - 1]
                                  .children[1].position = TopCall.node.position
                ELSE AnswerOfEnter.kind = "Err" /\ result'.kind = "Unknown"
           ELSE AnswerOfEnter = Act("Keep", TopCall.node)]_vars

\* transform returned the document in which an Open usage with two parameters
\* is rewritten and an Eq environment is kept
C24_Witness ==
    /\ tpc = "done"
    /\ result.kind = "Ok"
    /\ visitors = <<Visitor(FALSE, "ComponentInsert")>>
    /\ document = TModule(0, <<CUsage(1, TwoParameters(2), <<VText(4, <<"1">>), TSelf(5)>>)>>)
    /\ Len(result.node.children) = 1
    /\ Len(result.node.children[1].children) = 4
    /\ result.node.children[1].header.kind = HKFragment
    /\ result.node.children[1].children[4].leaf = "VariableExpression"

-----------------------------------------------------------------------------
(* Properties of Cleanup                                                   *)

\* whitespace-only Text, said of the characters one by one
WhitespaceOnly(n) ==
    n.kind = "Leaf" /\ n.leaf = "Text" /\ ~\E i \in 1..Len(n.value) : n.value[i] \notin {" ", NL, NBSP}

\* the first child to stay and the last child to stay
FirstKept(c) == IF c # <<>> /\ WhitespaceOnly(c[1]) THEN 2 ELSE 1
LastKept(c) == IF c # <<>> /\ WhitespaceOnly(c[Len(c)]) THEN Len(c) - 1 ELSE Len(c)

\* C25: for every Open environment Cleanup removes the first child if it is a
\* Text of whitespace only and the last child if it is one, at most one node at
\* each end and nothing else of the node; it answers Keep when neither end was
\* trimmed and Replace otherwise; leaves and self-closing environments are kept
C25_CleanupTrimsEnds ==
    [][AtCleanupEnter =>
           IF IsOpen(TopCall.node)
           THEN /\ AnswerOfEnter.node =
                       [TopCall.node EXCEPT !.children =
                           SubSeq(@, FirstKept(TopCall.node.children),
                                  LastKept(TopCall.node.children))]
                /\ AnswerOfEnter.kind =
                       (IF /\ FirstKept(TopCall.node.children) = 1
                           /\ LastKept(TopCall.node.children) = Len(TopCall.node.children)
                        THEN "Keep" ELSE "Replace")
           ELSE AnswerOfEnter = Act("Keep", TopCall.node)]_vars

\* transform returned the document whose environment had three children of
\* whitespace: the one in the middle is left
C25_Witness ==
    /\ tpc = "done"
    /\ result.kind = "Ok"
    /\ document = TModule(0, <<TEnv(1, <<Blank(2), Blank(3), BlankLine(4)>>), TText(5)>>)
    /\ result.node.children = <<TEnv(1, <<Blank(3)>>), TText(5)>>

-----------------------------------------------------------------------------
(* Properties of the scanner                                               *)

\* the call made in this step
CallMade(op) == pc = "scan" /\ stack' # stack /\ stack'[1].op = op

\* the bytes between the position the call started from and the end token
SpanBytes == stop'.position.byte_idx - cursor.position.byte_idx

\* v is the source from the cursor up to the byte that is n bytes on
IsSourceSpan(v, n) == StartsWith(cursor.remaining, v) /\ StrLen(v) = n

\* C26: when seek_to_and_capture returns, the captured handle is None exactly
\* when no byte lies between the start position and the end token; otherwise
\* the captured token has the kind given, the start position and as its value
\* the source from the start position up to the end token; the end token is of
\* one of end_kinds and no diagnostic is added, or the input is exhausted, the
\* end token is an EndOfModule at the end of input and exactly one diagnostic
\* 'unexpected end of input' is added
C26_CapturedAndEnd ==
    [][(CallMade("seek_to_and_capture") /\ pc' = "returned") =>
           /\ Len(tokens') \in {Len(tokens) + 1, Len(tokens) + 2}
           /\ tokens'[Len(tokens')] = stop'
           /\ (Len(tokens') = Len(tokens) + 1) <=> (SpanBytes = 0)
           /\ Len(tokens') = Len(tokens) + 2 =>
                  /\ tokens'[Len(tokens) + 1].kind = TK(stack'[1].captured_kind)
                  /\ tokens'[Len(tokens) + 1].position = cursor.position
                  /\ IsSourceSpan(tokens'[Len(tokens) + 1].value, SpanBytes)
           /\ IF \E i \in 1..Len(stack'[1].kinds) : stop'.kind = stack'[1].kinds[i]
              THEN errors' = errors
              ELSE /\ stop' = Token(TK("EndOfModule"), <<>>, cursor'.position)
                   /\ cursor'.remaining = <<>>
                   /\ Len(errors') = Len(errors) + 1
                   /\ SubSeq(errors', 1, Len(errors)) = errors
                   /\ errors'[Len(errors')].kind.error = "UnexpectedEof"]_vars

\* seek_to_and_capture returned for a no-break space and `$`: a Text of two
\* bytes and the Dollar behind it
C26_Witness ==
    /\ pc = "returned"
    /\ src = <<NBSP, "$">>
    /\ stack = <<[op |-> "seek_to_and_capture", kinds |-> ChildKinds(TKEnvClose(ClosingA)),
                  captured_kind |-> "Text", from |-> NewCursor(src)]>>
    /\ tokens = <<Token(TK("Text"), <<NBSP>>, PositionZero),
                  Token(TK("Dollar"), <<"$">>, [line |-> 0, col |-> 1, byte_idx |-> 2])>>
    /\ errors = <<>>

\* the characters of s behind its first n
DropChars(s, n) == SubSeq(s, n + 1, Len(s))

\* C27: try_parse_token returns the matched substring and moves the cursor on
\* by the byte length of that substring, in position and remaining input, or
\* it returns nothing and leaves position, remaining input and token store as
\* they were; substrings with multi-byte characters are no exception
C27_MatchersAtomic ==
    [][(CallMade("try_parse_token") /\ pc' # "panic") =>
           IF pc' = "some"
           THEN /\ StartsWith(cursor.remaining, stop'.value)
                /\ cursor'.position.byte_idx = cursor.position.byte_idx + StrLen(stop'.value)
                /\ cursor'.remaining = DropChars(cursor.remaining, Len(stop'.value))
                /\ tokens' = tokens
           ELSE /\ cursor' = cursor
                /\ tokens' = tokens
                /\ errors' = errors]_vars

RECURSIVE Stops(_)
\* the cursors a seek looks at: from the start on by one character, or by a
\* backslash and the character behind it, as long as input remains
Stops(cur) ==
    IF cur.remaining = <<>> THEN <<>>
    ELSE <<cur>> \o Stops(IF Head(cur.remaining) = BSL /\ Len(cur.remaining) > 1
                          THEN [remaining |-> DropChars(cur.remaining, 2),
                                position  |-> Advance(Advance(cur.position, BSL),
                                                      cur.remaining[2])]
                          ELSE [remaining |-> DropChars(cur.remaining, 1),
                                position  |-> Advance(cur.position, Head(cur.remaining))])

\* the kind matches at the cursor
MatchesAt(cur, kind) == MatchToken(cur.remaining, kind).ok

\* some kind of the list matches at the cursor
AnyMatchesAt(cur, kinds) == \E j \in 1..Len(kinds) : MatchesAt(cur, kinds[j])

\* token is the match of the kind listed first among those that match at the
\* i-th stop, and nothing matches at a stop before it
IsNearestMatch(token, stops, i, kinds) ==
    /\ token.position = stops[i].position
    /\ \E j \in 1..Len(kinds) :
          /\ token.kind = kinds[j]
          /\ MatchToken(stops[i].remaining, kinds[j]) = Matched(token.value)
          /\ \A k \in 1..(j - 1) : ~MatchesAt(stops[i], kinds[k])
    /\ \A h \in 1..(i - 1) : ~AnyMatchesAt(stops[h], kinds)

\* C28: when seek_to returns a token, it is the match at the first position,
\* reached from the start by steps of one unescaped character or one pair of a
\* backslash and a character, at which one of the end kinds matches, and of the
\* kinds that match there the one listed first; it returns the EndOfModule of
\* the exhausted input, or nothing, only when no kind matches at any of these
\* positions
C28_NearestMatchFirstListed ==
    [][(CallMade("seek_to") /\ pc' # "panic") =>
           IF \E i \in 1..Len(Stops(cursor)) : AnyMatchesAt(Stops(cursor)[i], stack'[1].kinds)
           THEN /\ pc' = "some"
                /\ \E i \in 1..Len(Stops(cursor)) :
                      IsNearestMatch(stop', Stops(cursor), i, stack'[1].kinds)
           ELSE /\ cursor'.remaining = <<>>
                /\ IF \E j \in 1..Len(stack'[1].kinds) : stack'[1].kinds[j] = TK("EndOfModule")
                   THEN pc' = "some" /\ stop' = Token(TK("EndOfModule"), <<>>, cursor'.position)
                   ELSE pc' = "none"]_vars

\* seek_to, called inside an inline equation at "x${", returned the closing
\* Dollar and not the DollarBrace that matches at the same position
C28_Witness ==
    /\ pc = "some"
    /\ src = <<"x", "$", "{">>
    /\ stack = <<[op |-> "seek_to", kinds |-> ChildKinds(TK("Dollar")), captured_kind |-> "-",
                  from |-> NewCursor(src)]>>
    /\ stop = Token(TK("Dollar"), <<"$">>, [line |-> 0, col |-> 1, byte_idx |-> 1])

-----------------------------------------------------------------------------
(* Properties of literal text                                              *)

\* characters that start no token parse_children seeks and escape nothing
PlainCharacters == {"x", " ", NBSP, EACUTE}

\* a source without a structural token and without a backslash
IsLiteralSource(s) == \A i \in 1..Len(s) : s[i] \in PlainCharacters

\* C29: for a source without a structural token and without a backslash parse
\* returns a Module whose only child is a Text with the whole source as its
\* value, a Module without children for the empty source, and no diagnostic
C29_LiteralTextKept ==
    (pc = "done" /\ IsLiteralSource(src)) =>
        /\ root.kind = "Env"
        /\ root.header.kind = HKModule
        /\ Len(root.children) = (IF src = <<>> THEN 0 ELSE 1)
        /\ \A i \in 1..Len(root.children) :
              /\ root.children[i].kind = "Leaf"
              /\ root.children[i].leaf = "Text"
              /\ root.children[i].value = src
        /\ errors = <<>>

-----------------------------------------------------------------------------
(* Properties of attributes without a name                                 *)

\* the loop is at its head with an `=` in front of the cursor: no name precedes it
AtNamelessEquals == pc = "attrs" /\ cursor.remaining # <<>> /\ Head(cursor.remaining) = "="

\* the index of the first quote of s behind index i, 0 when there is none
QuoteBehind(s, i) ==
    IF \E j \in (i + 1)..Len(s) : s[j] = QUOTE
    THEN CHOOSE j \in (i + 1)..Len(s) : s[j] = QUOTE /\ \A k \in (i + 1)..(j - 1) : s[k] # QUOTE
    ELSE 0

\* the text between the first two quotes of s
BetweenQuotes(s) == SubSeq(s, QuoteBehind(s, 0) + 1, QuoteBehind(s, QuoteBehind(s, 0)) - 1)

\* the key under which the attribute written as w is stored
KeyOf(w) == IF NameOf(w) = <<>> THEN ErrorKey ELSE NameOf(w)

\* C30: an `=` without an attribute name in front of it makes the attribute
\* loop record the diagnostic 'missing attribute name' at the `=`, store the
\* value under the key "<error>" and leave the other entries alone, and go on
\* with the loop: when the loop returns at the terminator, the attributes
\* written behind the `=` are in the map as well
C30_MissingNameKeepsGoing ==
    [][/\ (AtNamelessEquals /\ pc' # "panic") =>
            /\ errors' = Append(errors, ErrorToken("MissingAttrName", cursor.position))
            /\ DOMAIN hdr'.attrs = DOMAIN hdr.attrs \cup {ErrorKey}
            /\ Len(hdr'.attrs[ErrorKey]) = 1
            /\ hdr'.attrs[ErrorKey][1].kind = "Leaf"
            /\ hdr'.attrs[ErrorKey][1].leaf = "Text"
            /\ hdr'.attrs[ErrorKey][1].value = BetweenQuotes(cursor.remaining)
            /\ \A k \in DOMAIN hdr.attrs \ {ErrorKey} : hdr'.attrs[k] = hdr.attrs[k]
            /\ pc' = "attrs"
       /\ (pc = "attrs" /\ pc' = "env_body") =>
            /\ hdr'.stop_kind = (IF TerminatorOf(src) = <<">">> THEN TK("RightAngle")
                                 ELSE TK("EnvSelfClose"))
            /\ DOMAIN hdr'.header.attrs =
                   { KeyOf(WrittenAttrs(src)[i]) : i \in 1..Len(WrittenAttrs(src)) }
            /\ Len(errors') =
                   Cardinality({ i \in 1..Len(WrittenAttrs(src)) :
                                   NameOf(WrittenAttrs(src)[i]) = <<>> })]_vars

\* the loop returned for `="x" a>`: one diagnostic, the value under "<error>"
\* and the attribute a behind it
C30_Witness ==
    /\ pc = "env_body"
    /\ src = <<"=", QUOTE, "x", QUOTE, " ", "a", ">">>
    /\ errors = <<ErrorToken("MissingAttrName", PositionZero)>>
    /\ DOMAIN hdr.header.attrs = {ErrorKey, <<"a">>}
    /\ hdr.header.attrs[<<"a">>] = <<>>
    /\ hdr.stop_kind = TK("RightAngle")

-----------------------------------------------------------------------------
(* Properties of attribute values                                          *)

\* the iteration of the attribute loop taken in this step is the one for an `=`
ValueStep ==
    /\ pc = "attrs"
    /\ ~AttrSeek.panic
    /\ AttrSeek.end.kind = TK("Equals")
    /\ pc' # "panic"

\* the source behind the `=`
BehindEquals == AttrSeek.cur.remaining

\* the index of the first character of s that is no white space, 0 when there is none
FirstInk(s) ==
    IF \E i \in 1..Len(s) : ~IsWhitespace(s[i])
    THEN CHOOSE i \in 1..Len(s) : ~IsWhitespace(s[i]) /\ \A j \in 1..(i - 1) : IsWhitespace(s[j])
    ELSE 0

\* the first character behind the `=` that is no white space is the opening quote
OpensWithQuote(s) == FirstInk(s) # 0 /\ s[FirstInk(s)] = QUOTE

\* a diagnostic other than 'missing attribute name' is recorded in this step
ValueDiagnostic ==
    \E i \in (Len(errors) + 1)..Len(errors') : errors'[i].kind.error # "MissingAttrName"

\* C31: behind `=` only white space may precede the opening quote: if the first
\* character behind the `=` that is no white space is not a quote, a diagnostic
\* is recorded, and if the closing quote of the value is missing, a diagnostic
\* is recorded
C31_ValueNeedsQuotes ==
    [][ValueStep =>
           /\ ~OpensWithQuote(BehindEquals) => ValueDiagnostic
           /\ (OpensWithQuote(BehindEquals)
                 /\ QuoteBehind(BehindEquals, FirstInk(BehindEquals)) = 0) => ValueDiagnostic]_vars

-----------------------------------------------------------------------------
(* Properties of the order of the calls within one descent                 *)

\* the ids of the activations that have not returned
Unreturned == IF tpc = "descent" THEN { calls[k].original_id : k \in 1..Len(calls) } ELSE {}

\* enter answered an error in the descent logged
DescentFailed == log # <<>> /\ log[Len(log)].kind = "Err"

\* the places of the log at which leave was called with the id
LeavesOf(l, id) == { j \in 1..Len(l) : l[j].op = "leave" /\ l[j].id = id }

\* in the calls logged, no node whose enter answered Remove or an error is
\* left, a node whose enter answered Keep or Replace is left at most once, with
\* the id and the parent id enter was called with, and just once as soon as its
\* activation has returned
LeftOnce(l) ==
    \A i \in 1..Len(l) :
        l[i].op = "enter" =>
            IF l[i].kind \in {"Remove", "Err"} THEN LeavesOf(l, l[i].id) = {}
            ELSE /\ Cardinality(LeavesOf(l, l[i].id)) <= 1
                 /\ \A j \in LeavesOf(l, l[i].id) : j > i /\ l[j].parent = l[i].parent
                 /\ ~DescentFailed =>
                        (LeavesOf(l, l[i].id) = {} <=> l[i].id \in Unreturned)

\* the children that stay: the nodes of the actions that are no Remove
Survivors(done) ==
    LET stay == SelectSeq(done, LAMBDA a : a.kind # "Remove")
    IN  [i \in 1..Len(stay) |-> stay[i].node]

\* the node the activation that calls leave in this step has built: the node
\* enter answered, with the children that stay if it is an Open environment
FinalNode ==
    IF TopCall.phase = "children"
    THEN [TopCall.node EXCEPT !.children = Survivors(TopCall.done)]
    ELSE Returned.node

\* C32: leave is called exactly once for every node whose enter returned Keep
\* or Replace and whose subtree descent did not fail, and it receives the final
\* node (after replacement and with the surviving transformed children), the id
\* the node had before enter was called, and the same parent id that was passed
\* to enter
C32_LeaveOnceWithFinalNode ==
    [][/\ LeftOnce(log)'
       /\ LeaveStep =>
             /\ Returns
             /\ Returned.node = FinalNode
             /\ log'[Len(log')] =
                   [op |-> "leave", visitor |-> vidx, id |-> TopCall.original_id,
                    parent |-> TopCall.parent_id, kind |-> "-",
                    below |-> IdsOf(FinalNode.children),
                    inner |-> LeaveDelegated(vidx, TopCall.original_id)]
             /\ \E i \in 1..(Len(log') - 1) :
                   /\ log'[i].op = "enter" /\ log'[i].kind \in {"Keep", "Replace"}
                   /\ log'[i].id = TopCall.original_id
                   /\ log'[i].parent = TopCall.parent_id]_vars

\* the descent of a visitor is over; the root was replaced by a node with
\* another id and left under its own id, and a child of it was removed
C32_Witness ==
    /\ tpc = "loop" /\ log # <<>>
    /\ log[1].op = "enter" /\ log[1].kind = "Replace"
    /\ action.node.id # log[1].id
    /\ log[Len(log)].op = "leave" /\ log[Len(log)].id = log[1].id
    /\ \E i \in 1..Len(log) : log[i].op = "enter" /\ log[i].kind = "Remove"

\* enter answered Keep or Replace at this place of the log
Opens(l, i) == l[i].op = "enter" /\ l[i].kind \in {"Keep", "Replace"}

\* the place of the leave that belongs to the enter at place i, one behind the
\* end of the log when the node is not left yet
Closes(l, i) ==
    IF \E j \in (i + 1)..Len(l) : l[j].op = "leave" /\ l[j].id = l[i].id
    THEN CHOOSE j \in (i + 1)..Len(l) : l[j].op = "leave" /\ l[j].id = l[i].id
    ELSE Len(l) + 1

\* the calls logged, read as brackets, are balanced: every leave closes an
\* enter that answered Keep or Replace, and of two such nodes the one entered
\* later is left before the other is or after the other was left
Balanced(l) ==
    /\ \A j \in 1..Len(l) :
           l[j].op = "leave" => \E i \in 1..(j - 1) : Opens(l, i) /\ Closes(l, i) = j
    /\ \A i, k \in 1..Len(l) :
           (i < k /\ Opens(l, i) /\ Opens(l, k)) =>
               IF Closes(l, i) <= Len(l)
               THEN Closes(l, i) < k \/ Closes(l, k) < Closes(l, i)
               ELSE TRUE

\* the nodes entered and not yet left, the outermost first
Unclosed(l) ==
    LET open == SelectSeq(l, LAMBDA r : r.op = "enter" /\ r.kind \in {"Keep", "Replace"}
                                          /\ LeavesOf(l, r.id) = {})
    IN  [k \in 1..Len(open) |-> open[k].id]

\* the activations whose enter has answered and that have not returned
Descending == SelectSeq(calls, LAMBDA c : c.phase = "children")

\* the calls logged are properly nested, and the nodes entered and not yet left
\* are those of the activations that have not returned, the outermost first
ProperlyNested ==
    /\ Balanced(log)
    /\ IF tpc = "descent"
       THEN Unclosed(log) = [k \in 1..Len(Descending) |-> Descending[k].original_id]
       ELSE DescentFailed \/ Unclosed(log) = <<>>

\* the activation that descended into the node about to be entered
Above == calls[Len(calls) - 1]

\* C33: within one single-pass descent the calls form a depth-first traversal:
\* enter(node) precedes enter of each of its children, children are entered
\* left to right in document order, every child's leave precedes the parent's
\* leave, and enter/leave pairs are properly nested (the sequence of calls is a
\* balanced bracket sequence apart from Remove-d nodes, which have enter only)
C33_DepthFirst ==
    [][/\ ProperlyNested'
       /\ AtEnter =>
             /\ log'[Len(log) + 1].op = "enter"
             /\ log'[Len(log) + 1].id = TopCall.node.id
             /\ Len(calls) > 1 =>
                   /\ Above.phase = "children"
                   /\ Len(Above.done) < Len(Above.node.children)
                   /\ TopCall.node = Above.node.children[Len(Above.done) + 1]
       /\ LeaveStep =>
             (IsOpen(FinalNode) => Len(TopCall.done) = Len(TopCall.node.children))]_vars

\* a descent is over in which the root and, below it, an environment with a
\* child and a second child were entered and left, and nothing was removed
C33_Witness ==
    /\ tpc = "loop" /\ Len(log) = 8
    /\ \A i \in 1..Len(log) : log[i].kind # "Remove"
    /\ [i \in 1..8 |-> log[i].op] =
          <<"enter", "enter", "enter", "leave", "leave", "enter", "leave", "leave">>

\* C34: the engine never reorders children: after a single-pass descent the
\* children of an Open environment are the results of the children returned by
\* enter, in the same relative order, minus exactly those whose result was
\* Remove; each child is entered with parent_id equal to the id of the node
\* returned by the parent's enter (the replacement's id if the parent was
\* replaced), and the root is entered with no parent id
C34_ChildrenKeepTheirOrder ==
    [][/\ AtEnter =>
             /\ TopCall.parent_id = (IF Len(calls) = 1 THEN <<>> ELSE <<Above.node.id>>)
             /\ log'[Len(log) + 1].parent = TopCall.parent_id
       /\ (Returns /\ Len(calls) > 1) =>
             /\ TopCall.original_id = Above.node.children[Len(Above.done) + 1].id
             /\ calls'[Len(calls')].done = Append(Above.done, Returned)
             /\ calls'[Len(calls')].node = Above.node
       /\ (LeaveStep /\ TopCall.phase = "children") =>
             /\ Len(TopCall.done) = Len(TopCall.node.children)
             /\ Returned.node.children = Survivors(TopCall.done)
             /\ Returned.node.id = TopCall.node.id]_vars

\* a descent is over in which the root was replaced by a node with another id
\* and its child was entered with that id as parent id and removed
C34_Witness ==
    /\ tpc = "loop" /\ Len(log) = 3
    /\ log[1].kind = "Replace" /\ log[1].parent = <<>>
    /\ log[2].op = "enter" /\ log[2].kind = "Remove" /\ log[2].parent = <<action.node.id>>
    /\ action.node.id # log[1].id
    /\ action.node.children = <<>>

-----------------------------------------------------------------------------
(* Properties of the cursor                                                *)

\* position.byte_idx + len(remaining) = len(source), and remaining is the rest
\* of the source from byte_idx on
CursorInSource(cur) ==
    /\ cur.position.byte_idx + StrLen(cur.remaining) = StrLen(src)
    /\ Len(cur.remaining) <= Len(src)
    /\ cur.remaining = SubSeq(src, Len(src) - Len(cur.remaining) + 1, Len(src))

\* a seek returns in this step
SeekReturns ==
    /\ CallMade("seek_to") \/ CallMade("seek_to_and_capture")
    /\ pc' # "panic"

\* the seek that returns in this step ends at the end of the input: it found
\* none of its end kinds, or the end token it hands back is an EndOfModule
EndsAtEndOfInput == pc' = "none" \/ stop'.kind = TK("EndOfModule")

\* C35: cursor bookkeeping: at every point during parsing position.byte_idx +
\* len(remaining) = len(source) and remaining is the suffix of source starting
\* at byte_idx; byte_idx never decreases; and whenever a seek ends at end of
\* input, byte_idx = len(source) and remaining is empty
C35_CursorBookkeeping ==
    [][/\ CursorInSource(cursor')
       /\ cursor'.position.byte_idx >= cursor.position.byte_idx
       /\ (SeekReturns /\ EndsAtEndOfInput) =>
             /\ cursor'.position.byte_idx = StrLen(src)
             /\ cursor'.remaining = <<>>]_vars

-----------------------------------------------------------------------------
(* Properties of the passes                                                *)

\* what transform may return
Outcomes == {"Ok", "MaxIterationsReached", "RootRemoved", "Unknown"}

\* the passes begun: one more than the passes that ended with a changed tree,
\* until the limit ends the last of them
PassesBegun == IF tpc = "done" /\ result.kind = "MaxIterationsReached"
               THEN iterations ELSE iterations + 1

TransformReturned(kind) == tpc = "done" /\ result.kind = kind

\* C37: with an empty visitor list transform never returns Ok: for every tree
\* and every max_passes it returns MaxIterationsReached (the initial state
\* counts as changed and no visitor can report Keep)
C37_NoVisitorsNeverOk ==
    /\ [](transformers = 0 => ~TransformReturned("Ok"))
    /\ (transformers = 0) ~> (TransformReturned("MaxIterationsReached")
                                /\ iterations = max_passes + 1 /\ action.node = document)

\* transform has returned MaxIterationsReached for an empty visitor list, the
\* greatest max_passes and a tree of four nodes
C37_Witness ==
    /\ transformers = 0 /\ max_passes = MaxPasses
    /\ NodeCount(<<document>>) = 4
    /\ TransformReturned("MaxIterationsReached")
    /\ log = <<>> /\ changes = 0

-----------------------------------------------------------------------------
(* Properties of the scope stack                                           *)

\* the ids under which the nodes entered and not yet left were entered and the
\* ids enter answered for them
EnteredNotLeft ==
    IF tpc = "descent"
    THEN { calls[k].original_id : k \in 1..Len(calls) } \cup { calls[k].node.id : k \in 1..Len(calls) }
    ELSE {}

\* C38: scope stack discipline of Variables: at every point of a descent each
\* scope on the stack is keyed by the id of a node that has been entered and
\* not yet left (an ancestor of the node being visited), no two scopes on the
\* stack have the same node_id, and after leave has been called for the root
\* the stack is empty; this holds with and without the TransformerOnce wrapper
\* and across several passes
C38_ScopeStackDiscipline ==
    result.kind \notin {"Unknown", "panic"} =>
        /\ \A k \in 1..Len(scopes) : scopes[k].node_id \in EnteredNotLeft
        /\ \A k, l \in 1..Len(scopes) : scopes[k].node_id = scopes[l].node_id => k = l
        /\ tpc # "descent" => scopes = <<>>

-----------------------------------------------------------------------------
(* Properties of TransformerOnce and nodes that come later                  *)

\* the TransformerOnce is about to answer for a node it has processed
ShortCircuits == AtEnter /\ visitors[vidx].once /\ TopCall.node.id \in visited[vidx]

\* the node about to be entered has not been processed and sits below a node
\* that has been
NewBelowProcessed ==
    /\ AtEnter /\ visitors[vidx].once
    /\ TopCall.node.id \notin visited[vidx]
    /\ Len(calls) > 1
    /\ TopCall.parent_id = <<Above.original_id>>
    /\ Above.original_id \in visited[vidx]

-----------------------------------------------------------------------------
(* Properties of the tree the Variables visitor leaves                     *)

RECURSIVE VariablesLeft(_)
\* the nodes of the trees, reached through children lists, that are a
\* VariableExpression leaf or an environment named var
VariablesLeft(nodes) ==
    IF nodes = <<>> THEN 0
    ELSE (IF Head(nodes).kind = "Leaf"
          THEN (IF Head(nodes).leaf = "VariableExpression" THEN 1 ELSE 0)
          ELSE (IF Head(nodes).header.kind = HKOther(VarName) THEN 1 ELSE 0)
                  + VariablesLeft(Head(nodes).children))
         + VariablesLeft(Tail(nodes))

=============================================================================
